---- MODULE Spec2Model ----
(***************************************************************************)
(* Key-derivation engine and signer abstraction of wdk-wallet-evm:         *)
(* MemorySafeSigningKey, MemorySafeHDNodeWallet, SeedSignerEvm,            *)
(* PrivateKeySignerEvm and the signer-based WalletAccountEvm.              *)
(*                                                                         *)
(* The JavaScript heap is explicit: `heap` holds the content of every      *)
(* Uint8Array scalar buffer, and a SigningKey container holds a REFERENCE  *)
(* (a buffer id) into it, so that aliasing and in-place mutation are       *)
(* visible.  256-bit arithmetic is scaled down to ByteMod = 2^4 with a     *)
(* group order CurveN < ByteMod; the add / overflow / subtract-once        *)
(* sequence is the code's.  HMAC-SHA512, secp256k1 point multiplication    *)
(* and address hashing are library functions, modelled as fixed mixing     *)
(* functions (none of them the identity).                                  *)
(*                                                                         *)
(* MemorySafeHDNodeWallet's `get signingKey` is written as                 *)
(* `return this.signingKey`, which read literally never returns.  It is    *)
(* modelled as the accessor its comment documents: the read of the         *)
(* container handed to the constructor (the node's signingKey field), so   *)
(* that derivation, signing and disposal can be examined at all.  The      *)
(* accessor as written is examined on its own (SpecSk).                    *)
(*                                                                         *)
(* LedgerSignerEvm is modelled with the device kit as its environment: the *)
(* kit's open sessions, the status the device reports, the outcome of each *)
(* connect / reconnect and the event stream of each device action are      *)
(* inputs.  One operation is one step; the calls it makes to the kit are   *)
(* recorded in order.  _consumeDeviceAction is also run event by event.    *)
(* populateTransactionEvm is a function of the partial transaction and the *)
(* provider's answers; a field is either absent or carries a fixed value.  *)
(***************************************************************************)
EXTENDS Integers, Sequences, FiniteSets, TLC

VARIABLES heap, wipes, keys, nodes, seedSigners, pkSigners, accounts, sent,
          called, last,
          device, sessions, nextSession, hwSigners, hwLast, da, tx, kd, wm, tr, cc, sk

\* the software key layer, the hardware signer with its device, the populator
softVars == <<heap, wipes, keys, nodes, seedSigners, pkSigners, accounts, sent,
              called, last>>
hwVars == <<device, sessions, nextSession, hwSigners, hwLast, da>>
txVars == <<tx>>
\* the state of the functions that are exercised on their own
fnVars == <<txVars, kd, wm, tr, cc, sk>>
vars == <<softVars, hwVars, fnVars>>

\* ---- bounds -------------------------------------------------------------
MaxNodes == 3
MaxSigners == 3
MaxPkSigners == 1
MaxAccounts == 1
MaxSent == 1
MaxHwSigners == 2
MaxSessions == 3
MaxActionEvents == 1
MaxEvents == 3
\* populate calls made one after another on the same provider
MaxCalls == 3
\* account objects one wallet manager creates
MaxManagerAccounts == 2
\* calls made on one wallet manager
MaxManagerCalls == 4
\* calls in flight at the same time on one hardware signer
MaxConcurrentCalls == 2
\* frames the engine's call stack holds before it throws RangeError
MaxStackDepth == 24

\* ---- scaled program constants -------------------------------------------
\* 2^(8*32) scaled to 2^4: the range of a 32-byte buffer
ByteMod == 16
\* secp256k1.CURVE.n scaled: the group order, just below ByteMod
CurveN == 13
\* range of a chain code
ChainMod == 8

Undefined == -1
Null == -2

\* the bytes of "Bitcoin seed"
MasterSecret == 3

Seeds == {2, 6}
PrivateKeys == {5}
Digests == {1}

\* a path component: n is the number, h the hardened marker (')
Comp(n, h) == [n |-> n, h |-> h]
\* "m/44'/60'"
BIP_44_ETH_DERIVATION_PATH_PREFIX == <<Comp(44, TRUE), Comp(60, TRUE)>>
\* the relative paths "0'/0/i"
RelPaths == { <<Comp(0, TRUE), Comp(0, FALSE), Comp(i, FALSE)>> : i \in 0..1 }
ChildIndexes == {Comp(0, FALSE), Comp(0, TRUE)}

\* ---- library functions ----------------------------------------------------
\* ser32(index): the four index bytes appended to the HMAC data
Ser32(c) == 2 * c.n + (IF c.h THEN 1 ELSE 0)

\* computeHmac('sha512', key, data), split into IL and IR
computeHmac(key, data, ser) ==
  [IL |-> (7 * key + 3 * data + 5 * ser + key * data + 1) % ByteMod,
   IR |-> (3 * key + 5 * data + ser + 2) % ChainMod]

\* secp256k1 accepts a scalar k with 0 < k < n
ValidScalar(k) == k > 0 /\ k < CurveN

\* secp256k1.getPublicKey(k): injective on valid scalars
getPublicKey(k) == 100 + ((7 * k) % CurveN)

\* computeAddress(publicKey)
computeAddress(pub) == 1000 + 3 * pub

\* secp256k1.sign(digest, k): a signature that recovers to getPublicKey(k)
secpSign(k, digest) == 10000 + 10 * getPublicKey(k) + digest

\* ---- big-integer helpers of the HD node ------------------------------------
addToPrivateKey(privateKey, x) ==
  [key |-> (privateKey + x) % ByteMod, overflow |-> (privateKey + x) >= ByteMod]

subtractCurveOrderFromPrivateKey(privateKey) ==
  (privateKey - CurveN + ByteMod) % ByteMod

compareWithCurveOrder(buffer) ==
  IF buffer > CurveN THEN 1 ELSE IF buffer < CurveN THEN -1 ELSE 0

\* serI: the HMAC input is 0x00||key for a hardened index, the cached
\* compressed public key otherwise
serI(c, chainCode, publicKey, privateKey) ==
  computeHmac(chainCode, IF c.h THEN privateKey ELSE publicKey, Ser32(c))

\* const overflow = addToPrivateKey(buffer, IL); if (overflow || compare >= 0)
\* subtractCurveOrderFromPrivateKey(buffer): the buffer afterwards, and
\* whether the order was subtracted (it is subtracted at most once)
addAndReduce(k, IL) ==
  LET a == addToPrivateKey(k, IL)
      sub == a.overflow \/ compareWithCurveOrder(a.key) >= 0
  IN [key |-> IF sub THEN subtractCurveOrderFromPrivateKey(a.key) ELSE a.key,
      overflow |-> a.overflow, subtracted |-> sub]

\* One deriveChild step on the values of a node: k is the content of the
\* node's buffer (Undefined when the container was disposed).  The result
\* carries the buffer content AFTER the call (the sum is written in place).
DeriveChildStep(k, chainCode, publicKey, c) ==
  IF k = Undefined
  THEN [ok |-> FALSE, err |-> IF c.h THEN "NeuteredNode" ELSE "TypeError",
        k |-> k, chainCode |-> chainCode, publicKey |-> publicKey]
  ELSE LET I == serI(c, chainCode, publicKey, k)
           k2 == addAndReduce(k, I.IL).key
       IN IF ValidScalar(k2)
          THEN [ok |-> TRUE, err |-> "", k |-> k2, chainCode |-> I.IR,
                publicKey |-> getPublicKey(k2)]
          ELSE [ok |-> FALSE, err |-> "InvalidPrivateKey", k |-> k2,
                chainCode |-> chainCode, publicKey |-> publicKey]

\* derivePath(node, path): deriveChild along the components; every step
\* works on the buffer its predecessor left behind
RECURSIVE derivePath(_, _, _, _)
derivePath(k, chainCode, publicKey, comps) ==
  IF comps = <<>>
  THEN [ok |-> TRUE, err |-> "", k |-> k, chainCode |-> chainCode,
        publicKey |-> publicKey]
  ELSE LET r == DeriveChildStep(k, chainCode, publicKey, Head(comps))
       IN IF r.ok THEN derivePath(r.k, r.chainCode, r.publicKey, Tail(comps))
          ELSE r

\* ---- the heap ----------------------------------------------------------------
\* A memory is the part of the state the key containers live in: buffer
\* contents, the number of sodium_memzero calls each buffer has received
\* (history), and the containers.  buf = 0 is `undefined`; buf0 records the
\* buffer a container was constructed on (history).
Mem == [heap |-> heap, wipes |-> wipes, keys |-> keys, ok |-> TRUE, err |-> ""]

\* content of the buffer container k references, Undefined when detached
BufferOf(M, k) == IF M.keys[k].buf = 0 THEN Undefined ELSE M.heap[M.keys[k].buf]

\* new MemorySafeSigningKey(privateKeyBuffer): keeps the reference it is given
NewSigningKey(b, content) ==
  [buf |-> b, buf0 |-> b, publicKeyBuffer |-> getPublicKey(content)]

\* as SigningKeyDispose, but the reference is kept after the wipe
SigningKeyDispose_KeepsReference(M, k) ==
  IF ~M.ok THEN M
  ELSE IF M.keys[k].buf = 0
  THEN [M EXCEPT !.ok = FALSE, !.err = "TypeError"]
  ELSE LET b == M.keys[k].buf
       IN [M EXCEPT !.heap[b] = 0, !.wipes[b] = @ + 1]

\* MemorySafeSigningKey.dispose(): sodium_memzero rejects `undefined`
SigningKeyDispose(M, k) ==
  IF ~M.ok THEN M
  ELSE IF M.keys[k].buf = 0
  THEN [M EXCEPT !.ok = FALSE, !.err = "TypeError"]
  ELSE LET b == M.keys[k].buf
       IN [M EXCEPT !.heap[b] = 0, !.wipes[b] = @ + 1, !.keys[k].buf = 0]

\* MemorySafeSigningKey.sign(digest)
SigningKeySign(M, k, digest) ==
  LET c == BufferOf(M, k)
  IN IF c = Undefined THEN [ok |-> FALSE, err |-> "Uint8ArrayExpected", val |-> Undefined]
     ELSE IF ~ValidScalar(c) THEN [ok |-> FALSE, err |-> "InvalidPrivateKey", val |-> Undefined]
     ELSE [ok |-> TRUE, err |-> "", val |-> secpSign(c, digest)]

\* MemorySafeSigningKey.privateKeyBuffer
privateKeyBuffer(M, k) == BufferOf(M, k)

Result(op, kind, id, ok, err, val) ==
  [op |-> op, kind |-> kind, id |-> id, ok |-> ok, err |-> err, val |-> val]

\* new MemorySafeHDNodeWallet(guard, signingKey, ..., chainCode, path, index, depth)
NewHDNode(k, publicKey, chainCode, path, depth) ==
  [signingKey |-> k, publicKey |-> publicKey, chainCode |-> chainCode,
   path |-> path, depth |-> depth, address |-> computeAddress(publicKey)]

\* no key object constructed yet
InitSoft ==
  /\ heap = <<>>
  /\ wipes = <<>>
  /\ keys = <<>>
  /\ nodes = <<>>
  /\ seedSigners = <<>>
  /\ pkSigners = <<>>
  /\ accounts = <<>>
  /\ sent = <<>>
  /\ called = {}
  /\ last = Result("init", "", 0, TRUE, "", Undefined)

\* no hardware signer constructed yet, the device plugged in and unlocked
InitHw ==
  /\ device = "CONNECTED"
  /\ sessions = {}
  /\ nextSession = 0
  /\ hwSigners = <<>>
  /\ hwLast = [op |-> "init", id |-> 0, ok |-> TRUE, err |-> "", val |-> Undefined,
               calls |-> <<>>, hadAccount |-> FALSE, hadSession |-> FALSE, device |-> "CONNECTED"]

\* a device action that is about to emit `stream`
InitDa(stream) ==
  da = [stream |-> stream, pos |-> 0, settledAt |-> 0, completed |-> FALSE,
        promise |-> [state |-> "pending", val |-> Undefined, err |-> "",
                     subscribed |-> TRUE]]

\* the names root signers are registered under: 'default' and one more
DefaultSigner == <<"d", "e", "f", "a", "u", "l", "t">>
SignerNames == {DefaultSigner, <<"b">>}

\* new SeedSignerEvm(seed): a root signer, by the values of its root node
RootSigner(seed) ==
  LET I == computeHmac(MasterSecret, seed, 0)
  IN [present |-> TRUE, k |-> I.IL, chainCode |-> I.IR, publicKey |-> getPublicKey(I.IL)]
\* no signer registered under the name
NoSigner == [present |-> FALSE, k |-> 0, chainCode |-> 0, publicKey |-> 0]

\* new WalletManagerEvm(new SeedSignerEvm(seed)): the root signer under
\* 'default', no account yet.  `objects` are the WalletAccountEvm objects the
\* manager has created, `accounts` its cache, `returned` what it has handed
\* out so far (history).
InitWm(seed) ==
  wm = [signers |-> [n \in SignerNames |-> IF n = DefaultSigner THEN RootSigner(seed)
                                          ELSE NoSigner],
        accounts |-> {},
        objects |-> <<>>,
        returned |-> {},
        disposed |-> {},
        calls |-> 0,
        last |-> [op |-> "init", signerName |-> <<>>, path |-> <<>>, index |-> 0,
                  ok |-> TRUE, err |-> "", val |-> 0, cached |-> FALSE,
                  parsed |-> FALSE, derived |-> 0]]

\* an account's configuration and what its collaborators will answer to one
\* transfer: is there a provider, the configured transferMaxFee (Undefined:
\* none), the fee quoteSendTransaction answers or its failure, and whether
\* the signer signs and the node accepts the raw transaction
TransferCases ==
  [provider : BOOLEAN, transferMaxFee : {Undefined, 0, 5, 10}, fee : {0, 4, 5, 6, 10, 11},
   quoteOk : BOOLEAN, signOk : BOOLEAN, sendOk : BOOLEAN]
NoTransfer ==
  [provider |-> FALSE, transferMaxFee |-> Undefined, fee |-> 0, quoteOk |-> FALSE,
   signOk |-> FALSE, sendOk |-> FALSE]

\* account.transfer(options) not yet called
InitTr(case) ==
  tr = [case |-> case, done |-> FALSE, ok |-> FALSE, err |-> "", calls |-> <<>>,
        fee |-> Undefined]

\* a parent scalar and the left half IL of an HMAC, not yet added
InitKd(k, IL) ==
  kd = [k |-> k, IL |-> IL, done |-> FALSE, key |-> Undefined,
        overflow |-> FALSE, subtracted |-> FALSE, ok |-> FALSE]

\* one LedgerSignerEvm that nothing has been called on yet, and the calls
\* that will run on it side by side: `opened` are the sessions the kit ever
\* opened, `handshakes` counts the startDiscovering calls
IdleCall == [pc |-> "idle", op |-> "", sid |-> 0, ok |-> FALSE, err |-> "", val |-> Undefined]
InitCc ==
  cc = [me |-> [account |-> FALSE, address |-> Undefined, sessionId |-> 0,
                isActive |-> FALSE, dmk |-> TRUE],
        sessions |-> {}, opened |-> {}, next |-> 0, handshakes |-> 0,
        procs |-> [p \in 1..MaxConcurrentCalls |-> IdleCall]]

\* no member of an HD node is being read
InitSk == sk = [op |-> "", depth |-> 0, state |-> "idle"]

\* what getTransactionCount(from, 'pending') answers
PendingNonce == 9

\* a partial transaction and the network's fee data, populate not yet called
InitTx(input, feeData) ==
  tx = [input |-> input, feeData |-> feeData, pending |-> PendingNonce, done |-> FALSE,
        ok |-> FALSE, err |-> "", calls |-> <<>>, out |-> Undefined, log |-> <<>>]

\* the partial transaction with every optional field left out
EmptyTx ==
  [type |-> Null, gasPrice |-> Null, maxFeePerGas |-> Null, maxPriorityFeePerGas |-> Null,
   maxFeePerBlobGas |-> Null, blobs |-> Null, blobVersionedHashes |-> Null,
   accessList |-> Null, nonce |-> Null, gasLimit |-> Null]

\* a network that reports all three fee figures
FullFeeData == [gasPrice |-> 21, maxFeePerGas |-> 31, maxPriorityFeePerGas |-> 4]

Init ==
  /\ InitSoft
  /\ InitHw
  /\ InitDa(<<>>)
  /\ InitTx(EmptyTx, FullFeeData)
  /\ InitKd(1, 0)
  /\ InitWm(2)
  /\ InitTr(NoTransfer)
  /\ InitCc
  /\ InitSk

\* ---- SeedSignerEvm --------------------------------------------------------------
\* the private scalar node n reads through its container
NodeScalar(n) == BufferOf(Mem, nodes[n].signingKey)

\* new SeedSignerEvm(seed): MemorySafeHDNodeWallet.fromSeed puts the left half
\* of HMAC("Bitcoin seed", seed) into a fresh buffer
NewSeedSigner(seed) ==
  /\ Len(seedSigners) + Len(pkSigners) < MaxSigners
  /\ Len(nodes) < MaxNodes
  /\ LET I == computeHmac(MasterSecret, seed, 0)
         b == Len(heap) + 1
         k == Len(keys) + 1
         n == Len(nodes) + 1
     IN /\ ValidScalar(I.IL)
        /\ heap' = Append(heap, I.IL)
        /\ wipes' = Append(wipes, 0)
        /\ keys' = Append(keys, NewSigningKey(b, I.IL))
        /\ nodes' = Append(nodes, NewHDNode(k, getPublicKey(I.IL), I.IR, <<>>, 0))
        /\ seedSigners' = Append(seedSigners,
             [root |-> n, account |-> 0, isRoot |-> TRUE, address |-> Undefined,
              path |-> <<>>, isActive |-> TRUE, root0 |-> n, seed |-> seed])
        /\ last' = Result("new", "seed", Len(seedSigners) + 1, TRUE, "", Undefined)
  /\ UNCHANGED <<pkSigners, accounts, sent, called>>
  /\ UNCHANGED <<hwVars, fnVars>>

\* SeedSignerEvm.derive(relPath) = new SeedSignerEvm(null, {root, path}):
\* the constructor walks "m/44'/60'/relPath" from the shared root node
SeedDerive(s, rel) ==
  /\ s \in 1..Len(seedSigners)
  /\ Len(seedSigners) + Len(pkSigners) < MaxSigners
  /\ Len(nodes) < MaxNodes
  /\ LET me == seedSigners[s]
         fullPath == BIP_44_ETH_DERIVATION_PATH_PREFIX \o rel
     IN IF me.root = 0
        THEN /\ last' = Result("derive", "seed", s, FALSE, "SeedOrRootRequired", Undefined)
             /\ UNCHANGED <<heap, wipes, keys, nodes, seedSigners>>
        ELSE LET root == nodes[me.root]
                 rk == root.signingKey
                 r == derivePath(BufferOf(Mem, rk), root.chainCode, root.publicKey, fullPath)
                 b == keys[rk].buf
                 k == Len(keys) + 1
                 n == Len(nodes) + 1
             IN /\ heap' = IF b = 0 THEN heap ELSE [heap EXCEPT ![b] = r.k]
                /\ wipes' = wipes
                /\ IF r.ok
                   THEN /\ keys' = Append(keys, NewSigningKey(b, r.k))
                        /\ nodes' = Append(nodes,
                             NewHDNode(k, r.publicKey, r.chainCode, fullPath, Len(fullPath)))
                        /\ seedSigners' = Append(seedSigners,
                             [root |-> me.root, account |-> n, isRoot |-> FALSE,
                              address |-> computeAddress(r.publicKey), path |-> fullPath,
                              isActive |-> TRUE, root0 |-> me.root0, seed |-> me.seed])
                        /\ last' = Result("derive", "seed", s, TRUE, "", Len(seedSigners) + 1)
                   ELSE /\ UNCHANGED <<keys, nodes, seedSigners>>
                        /\ last' = Result("derive", "seed", s, FALSE, r.err, Undefined)
  /\ UNCHANGED <<pkSigners, accounts, sent, called>>
  /\ UNCHANGED <<hwVars, fnVars>>

SignOps == {"sign", "signTransaction", "signTypedData"}

\* the outcome of SeedSignerEvm.sign / signTransaction / signTypedData
SeedSignResult(M, me, digest) ==
  IF me.account = 0
  THEN [ok |-> FALSE, err |-> "RootSignerCannotSign", val |-> Undefined]
  ELSE SigningKeySign(M, nodes[me.account].signingKey, digest)

SeedSign(s, op, digest) ==
  /\ s \in 1..Len(seedSigners)
  /\ LET r == SeedSignResult(Mem, seedSigners[s], digest)
     IN last' = Result(op, "seed", s, r.ok, r.err, r.val)
  /\ UNCHANGED <<heap, wipes, keys, nodes, seedSigners, pkSigners, accounts, sent, called>>
  /\ UNCHANGED <<hwVars, fnVars>>

\* SeedSignerEvm declares no getAddress method (only the `address` getter)
SeedGetAddress(s) ==
  /\ s \in 1..Len(seedSigners)
  /\ last' = Result("getAddress", "seed", s, FALSE, "TypeError", Undefined)
  /\ UNCHANGED <<heap, wipes, keys, nodes, seedSigners, pkSigners, accounts, sent, called>>
  /\ UNCHANGED <<hwVars, fnVars>>

\* SeedSignerEvm.keyPair.privateKey
SeedKeyPairValue(M, me) ==
  IF me.account = 0 THEN Null ELSE privateKeyBuffer(M, nodes[me.account].signingKey)

SeedKeyPair(s) ==
  /\ s \in 1..Len(seedSigners)
  /\ last' = Result("keyPair", "seed", s, TRUE, "", SeedKeyPairValue(Mem, seedSigners[s]))
  /\ UNCHANGED <<heap, wipes, keys, nodes, seedSigners, pkSigners, accounts, sent, called>>
  /\ UNCHANGED <<hwVars, fnVars>>

\* SeedSignerEvm.dispose(): account first, then the shared root; the two
\* assignments are reached only when neither disposal throws
SeedDisposeEffect(M, S, s) ==
  LET me == S[s]
      m1 == IF me.account # 0 THEN SigningKeyDispose(M, nodes[me.account].signingKey) ELSE M
      m2 == IF me.root # 0 THEN SigningKeyDispose(m1, nodes[me.root].signingKey) ELSE m1
  IN [mem |-> m2,
      signers |-> IF m2.ok THEN [S EXCEPT ![s].root = 0, ![s].isActive = FALSE] ELSE S]

SeedDispose(s) ==
  /\ s \in 1..Len(seedSigners)
  /\ LET e == SeedDisposeEffect(Mem, seedSigners, s)
     IN /\ heap' = e.mem.heap
        /\ wipes' = e.mem.wipes
        /\ keys' = e.mem.keys
        /\ seedSigners' = e.signers
        /\ last' = Result("dispose", "seed", s, e.mem.ok, e.mem.err, Undefined)
  /\ called' = called \cup {<<"seed", s>>}
  /\ UNCHANGED <<nodes, pkSigners, accounts, sent>>
  /\ UNCHANGED <<hwVars, fnVars>>

\* ---- MemorySafeHDNodeWallet -----------------------------------------------------
\* MemorySafeHDNodeWallet.fromSeed(seed): the root node, on a fresh buffer
NodeFromSeed(seed) ==
  /\ Len(nodes) < MaxNodes
  /\ LET I == computeHmac(MasterSecret, seed, 0)
     IN /\ ValidScalar(I.IL)
        /\ heap' = Append(heap, I.IL)
        /\ wipes' = Append(wipes, 0)
        /\ keys' = Append(keys, NewSigningKey(Len(heap) + 1, I.IL))
        /\ nodes' = Append(nodes, NewHDNode(Len(keys) + 1, getPublicKey(I.IL), I.IR, <<>>, 0))
        /\ last' = Result("fromSeed", "node", Len(nodes) + 1, TRUE, "", Undefined)
  /\ UNCHANGED <<seedSigners, pkSigners, accounts, sent, called>>
  /\ UNCHANGED <<hwVars, fnVars>>

\* node.deriveChild(index): the sum is written into the node's own buffer
\* and the child's container is constructed on that same buffer
NodeDeriveChild(n, c) ==
  /\ n \in 1..Len(nodes)
  /\ Len(nodes) < MaxNodes
  /\ LET me == nodes[n]
         r == DeriveChildStep(BufferOf(Mem, me.signingKey), me.chainCode, me.publicKey, c)
         b == keys[me.signingKey].buf
         k == Len(keys) + 1
     IN /\ heap' = IF b = 0 THEN heap ELSE [heap EXCEPT ![b] = r.k]
        /\ IF r.ok
           THEN /\ keys' = Append(keys, NewSigningKey(b, r.k))
                /\ nodes' = Append(nodes,
                     NewHDNode(k, r.publicKey, r.chainCode, Append(me.path, c), me.depth + 1))
                /\ last' = Result("deriveChild", "node", n, TRUE, "", Len(nodes) + 1)
           ELSE /\ UNCHANGED <<keys, nodes>>
                /\ last' = Result("deriveChild", "node", n, FALSE, r.err, Undefined)
  /\ UNCHANGED <<wipes, seedSigners, pkSigners, accounts, sent, called>>
  /\ UNCHANGED <<hwVars, fnVars>>

\* node.connect(provider): a second node on the SAME container; the
\* constructor recomputes the public key from the container's buffer
NodeConnect(n) ==
  /\ n \in 1..Len(nodes)
  /\ Len(nodes) < MaxNodes
  /\ LET me == nodes[n]
         c == BufferOf(Mem, me.signingKey)
     IN IF c = Undefined \/ ~ValidScalar(c)
        THEN /\ last' = Result("connect", "node", n, FALSE,
                          IF c = Undefined THEN "TypeError" ELSE "InvalidPrivateKey", Undefined)
             /\ UNCHANGED nodes
        ELSE /\ nodes' = Append(nodes,
                  NewHDNode(me.signingKey, getPublicKey(c), me.chainCode, me.path, me.depth))
             /\ last' = Result("connect", "node", n, TRUE, "", Len(nodes) + 1)
  /\ UNCHANGED <<heap, wipes, keys, seedSigners, pkSigners, accounts, sent, called>>
  /\ UNCHANGED <<hwVars, fnVars>>

\* node.signMessage(message) -> signingKey.sign(digest)
NodeSign(n, digest) ==
  /\ n \in 1..Len(nodes)
  /\ LET r == SigningKeySign(Mem, nodes[n].signingKey, digest)
     IN last' = Result("sign", "node", n, r.ok, r.err, r.val)
  /\ UNCHANGED <<heap, wipes, keys, nodes, seedSigners, pkSigners, accounts, sent, called>>
  /\ UNCHANGED <<hwVars, fnVars>>

\* node.privateKeyBuffer
NodeReadKey(n) ==
  /\ n \in 1..Len(nodes)
  /\ last' = Result("privateKeyBuffer", "node", n, TRUE, "",
                    privateKeyBuffer(Mem, nodes[n].signingKey))
  /\ UNCHANGED <<heap, wipes, keys, nodes, seedSigners, pkSigners, accounts, sent, called>>
  /\ UNCHANGED <<hwVars, fnVars>>

\* node.dispose() -> signingKey.dispose()
NodeDispose(n) ==
  /\ n \in 1..Len(nodes)
  /\ LET m == SigningKeyDispose(Mem, nodes[n].signingKey)
     IN /\ heap' = m.heap
        /\ wipes' = m.wipes
        /\ keys' = m.keys
        /\ last' = Result("dispose", "node", n, m.ok, m.err, Undefined)
  /\ called' = called \cup {<<"node", n>>}
  /\ UNCHANGED <<nodes, seedSigners, pkSigners, accounts, sent>>
  /\ UNCHANGED <<hwVars, fnVars>>

\* ---- PrivateKeySignerEvm ---------------------------------------------------------
\* new PrivateKeySignerEvm(hex): a fresh buffer decoded from the hex string
NewPkSigner(key) ==
  /\ Len(pkSigners) < MaxPkSigners
  /\ Len(seedSigners) + Len(pkSigners) < MaxSigners
  /\ ValidScalar(key)
  /\ heap' = Append(heap, key)
  /\ wipes' = Append(wipes, 0)
  /\ keys' = Append(keys, NewSigningKey(Len(heap) + 1, key))
  /\ pkSigners' = Append(pkSigners,
       [signingKey |-> Len(keys) + 1, wallet |-> TRUE,
        address |-> computeAddress(getPublicKey(key)), isActive |-> TRUE])
  /\ last' = Result("new", "pk", Len(pkSigners) + 1, TRUE, "", Undefined)
  /\ UNCHANGED <<nodes, seedSigners, accounts, sent, called>>
  /\ UNCHANGED <<hwVars, fnVars>>

PkGetAddress(p) ==
  /\ p \in 1..Len(pkSigners)
  /\ last' = Result("getAddress", "pk", p, TRUE, "", pkSigners[p].address)
  /\ UNCHANGED <<heap, wipes, keys, nodes, seedSigners, pkSigners, accounts, sent, called>>
  /\ UNCHANGED <<hwVars, fnVars>>

\* sign / signTransaction / signTypedData go through this._wallet
PkSignResult(M, me, digest) ==
  IF ~me.wallet
  THEN [ok |-> FALSE, err |-> "TypeError", val |-> Undefined]
  ELSE SigningKeySign(M, me.signingKey, digest)

PkSign(p, op, digest) ==
  /\ p \in 1..Len(pkSigners)
  /\ LET r == PkSignResult(Mem, pkSigners[p], digest)
     IN last' = Result(op, "pk", p, r.ok, r.err, r.val)
  /\ UNCHANGED <<heap, wipes, keys, nodes, seedSigners, pkSigners, accounts, sent, called>>
  /\ UNCHANGED <<hwVars, fnVars>>

\* as PkDeriveResult, but a disposed signer answers as the other operations do
PkDeriveResult_ChecksActive(me, rel) ==
  [ok |-> FALSE, val |-> Undefined,
   err |-> IF me.isActive THEN "DerivationNotSupported" ELSE "SignerDisposed"]

\* derive () { throw new Error('PrivateKeySignerEvm does not support derivation.') }
PkDeriveResult(me, rel) ==
  [ok |-> FALSE, val |-> Undefined, err |-> "DerivationNotSupported"]

\* what a caller may pass to derive(): a relative path, or nothing (<<>>)
PkDeriveInputs == RelPaths \cup {<<>>}

PkDerive(p, rel) ==
  /\ p \in 1..Len(pkSigners)
  /\ LET r == PkDeriveResult(pkSigners[p], rel)
     IN last' = Result("derive", "pk", p, r.ok, r.err, r.val)
  /\ UNCHANGED <<heap, wipes, keys, nodes, seedSigners, pkSigners, accounts, sent, called>>
  /\ UNCHANGED <<hwVars, fnVars>>

PkKeyPairValue(M, me) == privateKeyBuffer(M, me.signingKey)

PkKeyPair(p) ==
  /\ p \in 1..Len(pkSigners)
  /\ last' = Result("keyPair", "pk", p, TRUE, "", PkKeyPairValue(Mem, pkSigners[p]))
  /\ UNCHANGED <<heap, wipes, keys, nodes, seedSigners, pkSigners, accounts, sent, called>>
  /\ UNCHANGED <<hwVars, fnVars>>

PkDisposeEffect(M, P, p) ==
  LET m == SigningKeyDispose(M, P[p].signingKey)
  IN [mem |-> m,
      signers |-> IF m.ok THEN [P EXCEPT ![p].wallet = FALSE, ![p].isActive = FALSE] ELSE P]

PkDispose(p) ==
  /\ p \in 1..Len(pkSigners)
  /\ LET e == PkDisposeEffect(Mem, pkSigners, p)
     IN /\ heap' = e.mem.heap
        /\ wipes' = e.mem.wipes
        /\ keys' = e.mem.keys
        /\ pkSigners' = e.signers
        /\ last' = Result("dispose", "pk", p, e.mem.ok, e.mem.err, Undefined)
  /\ called' = called \cup {<<"pk", p>>}
  /\ UNCHANGED <<nodes, seedSigners, accounts, sent>>
  /\ UNCHANGED <<hwVars, fnVars>>

\* ---- WalletAccountEvm (signer-based) ----------------------------------------------
SignerExists(h) ==
  \/ h[1] = "seed" /\ h[2] \in 1..Len(seedSigners)
  \/ h[1] = "pk" /\ h[2] \in 1..Len(pkSigners)

SignerIsRoot(h) == h[1] = "seed" /\ seedSigners[h[2]].isRoot

SignerAddress(h) ==
  IF h[1] = "seed" THEN seedSigners[h[2]].address ELSE pkSigners[h[2]].address

SignerSignResult(M, h, digest) ==
  IF h[1] = "seed" THEN SeedSignResult(M, seedSigners[h[2]], digest)
  ELSE PkSignResult(M, pkSigners[h[2]], digest)

SignerKeyPairValue(M, h) ==
  IF h[1] = "seed" THEN SeedKeyPairValue(M, seedSigners[h[2]])
  ELSE PkKeyPairValue(M, pkSigners[h[2]])

\* new WalletAccountEvm(signer, config)
NewAccount(h) ==
  /\ SignerExists(h)
  /\ Len(accounts) < MaxAccounts
  /\ IF SignerIsRoot(h)
     THEN /\ last' = Result("new", "account", 0, FALSE, "RootSigner", Undefined)
          /\ UNCHANGED accounts
     ELSE /\ accounts' = Append(accounts,
               [signer |-> h, isActive |-> TRUE, address |-> SignerAddress(h)])
          /\ last' = Result("new", "account", Len(accounts) + 1, TRUE, "", Undefined)
  /\ UNCHANGED <<heap, wipes, keys, nodes, seedSigners, pkSigners, sent, called>>
  /\ UNCHANGED <<hwVars, fnVars>>

\* account.getAddress(): the address cached at construction
AccountGetAddress(a) ==
  /\ a \in 1..Len(accounts)
  /\ last' = Result("getAddress", "account", a, TRUE, "", accounts[a].address)
  /\ UNCHANGED <<heap, wipes, keys, nodes, seedSigners, pkSigners, accounts, sent, called>>
  /\ UNCHANGED <<hwVars, fnVars>>

AccountKeyPair(a) ==
  /\ a \in 1..Len(accounts)
  /\ last' = Result("keyPair", "account", a, TRUE, "",
                    SignerKeyPairValue(Mem, accounts[a].signer))
  /\ UNCHANGED <<heap, wipes, keys, nodes, seedSigners, pkSigners, accounts, sent, called>>
  /\ UNCHANGED <<hwVars, fnVars>>

AccountSign(a, digest) ==
  /\ a \in 1..Len(accounts)
  /\ LET r == SignerSignResult(Mem, accounts[a].signer, digest)
     IN last' = Result("sign", "account", a, r.ok, r.err, r.val)
  /\ UNCHANGED <<heap, wipes, keys, nodes, seedSigners, pkSigners, accounts, sent, called>>
  /\ UNCHANGED <<hwVars, fnVars>>

\* account.sendTransaction(tx) on a connected account: quote, populate,
\* signer.signTransaction, then eth_sendRawTransaction with the signed bytes
AccountSendTransaction(a, digest) ==
  /\ a \in 1..Len(accounts)
  /\ Len(sent) < MaxSent
  /\ LET r == SignerSignResult(Mem, accounts[a].signer, digest)
     IN /\ sent' = IF r.ok
                   THEN Append(sent, [account |-> a, signed |-> r.val,
                                      afterDispose |-> accounts[a].signer \in called])
                   ELSE sent
        /\ last' = Result("sendTransaction", "account", a, r.ok, r.err, r.val)
  /\ UNCHANGED <<heap, wipes, keys, nodes, seedSigners, pkSigners, accounts, called>>
  /\ UNCHANGED <<hwVars, fnVars>>

\* account.dispose(): this._signer.dispose(), then _isActive = false
AccountDispose(a) ==
  /\ a \in 1..Len(accounts)
  /\ LET h == accounts[a].signer
         e == IF h[1] = "seed" THEN SeedDisposeEffect(Mem, seedSigners, h[2])
              ELSE PkDisposeEffect(Mem, pkSigners, h[2])
     IN /\ heap' = e.mem.heap
        /\ wipes' = e.mem.wipes
        /\ keys' = e.mem.keys
        /\ seedSigners' = IF h[1] = "seed" THEN e.signers ELSE seedSigners
        /\ pkSigners' = IF h[1] = "pk" THEN e.signers ELSE pkSigners
        /\ accounts' = IF e.mem.ok THEN [accounts EXCEPT ![a].isActive = FALSE] ELSE accounts
        /\ last' = Result("dispose", "account", a, e.mem.ok, e.mem.err, Undefined)
        /\ called' = called \cup {<<"account", a>>, h}
  /\ UNCHANGED <<nodes, sent>>
  /\ UNCHANGED <<hwVars, fnVars>>

SignerHandles ==
  {<<"seed", s>> : s \in 1..MaxSigners} \cup {<<"pk", p>> : p \in 1..MaxPkSigners}

\* ---- LedgerSignerEvm: the device action contract -------------------------------
\* the events a DeviceAction observable emits
Outputs == {71, 72}
\* evt.error: absent (falsy) or the error object of the device kit
ErrorContents == {"", "DeviceError"}

Event(status, output, error) == [status |-> status, output |-> output, error |-> error]

Events ==
  {Event("Pending", Undefined, ""), Event("Stopped", Undefined, "")}
    \cup {Event("Completed", o, "") : o \in Outputs}
    \cup {Event("Error", Undefined, e) : e \in ErrorContents}

\* every event stream of at most n events
StreamsUpTo(n) == UNION {[1..k -> Events] : k \in 0..n}

\* the filter of _consumeDeviceAction: only these statuses pass
IsTerminal(evt) == evt.status \in {"Completed", "Error", "Stopped"}

\* the promise firstValueFrom returns, before any event
PendingPromise ==
  [state |-> "pending", val |-> Undefined, err |-> "", subscribed |-> TRUE]

\* as ConsumeNext, but a Stopped event is surfaced as the unknown device error
ConsumeNext_StoppedAsError(p, evt) ==
  IF ~p.subscribed \/ ~IsTerminal(evt) THEN p
  ELSE IF evt.status = "Completed"
       THEN [state |-> "resolved", val |-> evt.output, err |-> "", subscribed |-> FALSE]
  ELSE [state |-> "rejected", val |-> Undefined, subscribed |-> FALSE,
        err |-> IF evt.status = "Stopped" \/ evt.error = ""
                THEN "UnknownLedgerError" ELSE evt.error]

\* as ConsumeNext, but the subscription is kept: a later terminal event
\* overwrites the result
ConsumeNext_KeepsSubscription(p, evt) ==
  IF ~IsTerminal(evt) THEN p
  ELSE IF evt.status = "Completed"
       THEN [state |-> "resolved", val |-> evt.output, err |-> "", subscribed |-> TRUE]
  ELSE IF evt.status = "Error"
       THEN [state |-> "rejected", val |-> Undefined, subscribed |-> TRUE,
             err |-> IF evt.error = "" THEN "UnknownLedgerError" ELSE evt.error]
  ELSE [state |-> "rejected", val |-> Undefined, err |-> "ActionStopped",
        subscribed |-> TRUE]

\* one event through filter -> map -> firstValueFrom: the first value that
\* passes the filter settles the promise and unsubscribes from the source
ConsumeNext(p, evt) ==
  IF ~p.subscribed \/ ~IsTerminal(evt) THEN p
  ELSE IF evt.status = "Completed"
       THEN [state |-> "resolved", val |-> evt.output, err |-> "", subscribed |-> FALSE]
  ELSE IF evt.status = "Error"
       THEN [state |-> "rejected", val |-> Undefined, subscribed |-> FALSE,
             err |-> IF evt.error = "" THEN "UnknownLedgerError" ELSE evt.error]
  ELSE [state |-> "rejected", val |-> Undefined, err |-> "ActionStopped",
        subscribed |-> FALSE]

\* as ConsumeComplete, but a source that completes empty settles nothing
ConsumeComplete_StaysPending(p) == p

\* the source completes: firstValueFrom rejects when nothing passed the filter
ConsumeComplete(p) ==
  IF p.subscribed
  THEN [state |-> "rejected", val |-> Undefined, err |-> "EmptyError", subscribed |-> FALSE]
  ELSE p

RECURSIVE ConsumeFrom(_, _, _)
ConsumeFrom(p, stream, i) ==
  IF i > Len(stream) THEN ConsumeComplete(p)
  ELSE ConsumeFrom(ConsumeNext(p, stream[i]), stream, i + 1)

\* _consumeDeviceAction(observable) on a source that emits `stream` and completes
consumeDeviceAction(stream) ==
  LET p == ConsumeFrom(PendingPromise, stream, 1)
  IN [ok |-> p.state = "resolved", err |-> p.err, val |-> p.val]

\* a device action observed event by event
DeviceActionEmit ==
  /\ da.pos < Len(da.stream)
  /\ da' = [da EXCEPT !.pos = @ + 1,
                      !.promise = ConsumeNext(da.promise, da.stream[da.pos + 1]),
                      !.settledAt = IF da.promise.subscribed
                                       /\ IsTerminal(da.stream[da.pos + 1])
                                    THEN da.pos + 1 ELSE @]
  /\ UNCHANGED <<softVars, device, sessions, nextSession, hwSigners, hwLast, fnVars>>

DeviceActionComplete ==
  /\ da.pos = Len(da.stream)
  /\ ~da.completed
  /\ da' = [da EXCEPT !.completed = TRUE, !.promise = ConsumeComplete(da.promise)]
  /\ UNCHANGED <<softVars, device, sessions, nextSession, hwSigners, hwLast, fnVars>>

\* ---- LedgerSignerEvm: the signer ------------------------------------------------
DeviceStatus == {"CONNECTED", "LOCKED", "BUSY", "NOT_CONNECTED"}

HW_BIP_44_ETH_DERIVATION_PATH_PREFIX == <<Comp(44, TRUE), Comp(60, TRUE)>>
HwPaths == {<<Comp(0, TRUE)>>}
HwRelPaths == {<<Comp(0, FALSE)>>}

\* the event streams the device answers an action with
ActionStreams == StreamsUpTo(MaxActionEvents)
\* the answers to the getAddress action of the handshake
HandshakeStreams ==
  {<<Event("Completed", 71, "")>>,
   <<Event("Pending", Undefined, ""), Event("Error", Undefined, "DeviceError")>>,
   <<Event("Stopped", Undefined, "")>>}

\* new LedgerSignerEvm(path, config, opts): nothing is connected yet
NewLedgerSigner(path, parent) ==
  [account |-> FALSE, address |-> Undefined, sessionId |-> 0,
   path |-> HW_BIP_44_ETH_DERIVATION_PATH_PREFIX \o path,
   isActive |-> FALSE, dmk |-> TRUE, parent |-> parent]

\* the run of one operation: the signer's fields, the sessions the kit holds,
\* the calls made to the kit so far, and the error thrown (if any)
HwRun(me) ==
  [me |-> me, sessions |-> sessions, next |-> nextSession, device |-> device,
   calls |-> <<>>, ok |-> TRUE, err |-> "", val |-> Undefined]

\* a connect or reconnect that succeeds has found the device: the session it
\* opens does not report NOT_CONNECTED
HwFound(status) == IF status = "NOT_CONNECTED" THEN "CONNECTED" ELSE status

HwCall(c, name) == [c EXCEPT !.calls = Append(@, name)]
HwThrow(c, err) == [c EXCEPT !.ok = FALSE, !.err = err]

\* as HwDisconnect, but the finally block leaves _isActive alone
HwDisconnect_KeepsActive(c) ==
  LET c1 == IF c.me.account /\ c.me.dmk /\ c.me.sessionId # 0
            THEN [HwCall(c, "disconnect") EXCEPT !.sessions = @ \ {c.me.sessionId}]
            ELSE c
  IN [c1 EXCEPT !.me.account = FALSE, !.me.sessionId = 0]

\* _disconnect(): best-effort close, then the fields are reset in any case
HwDisconnect(c) ==
  LET c1 == IF c.me.account /\ c.me.dmk /\ c.me.sessionId # 0
            THEN [HwCall(c, "disconnect") EXCEPT !.sessions = @ \ {c.me.sessionId}]
            ELSE c
  IN [c1 EXCEPT !.me.account = FALSE, !.me.sessionId = 0, !.me.isActive = FALSE]

\* _connect(): discover, connect, build the signer, ask the device for the address
HwConnect(c, connectOk, hs) ==
  IF ~c.me.dmk THEN HwThrow(c, "TypeError")
  ELSE LET c1 == HwCall(HwCall(c, "startDiscovering"), "connect")
       IN IF ~connectOk THEN HwThrow(c1, "ConnectionError")
          ELSE LET sid == c1.next + 1
                   c2 == [HwCall(c1, "action") EXCEPT
                            !.next = sid, !.sessions = @ \cup {sid},
                            !.device = HwFound(@),
                            !.me.sessionId = sid, !.me.account = TRUE]
                   r == consumeDeviceAction(hs)
               IN IF r.ok
                  THEN [c2 EXCEPT !.me.address = r.val, !.me.isActive = TRUE]
                  ELSE HwThrow(HwDisconnect(c2), r.err)

\* _reconnect(): soft reconnect of the session, full connect when that fails
HwReconnect(c, reconnectOk, connectOk, hs) ==
  IF ~c.me.dmk \/ c.me.sessionId = 0 THEN HwConnect(c, connectOk, hs)
  ELSE LET c1 == HwCall(c, "getConnectedDevice")
       IN IF c.me.sessionId \notin c.sessions
          THEN HwConnect(HwDisconnect(c1), connectOk, hs)
          ELSE LET c2 == HwCall(c1, "reconnect")
               IN IF reconnectOk
                  THEN [c2 EXCEPT !.next = @ + 1,
                                  !.sessions = (@ \ {c.me.sessionId}) \cup {c2.next + 1},
                                  !.device = HwFound(@),
                                  !.me.sessionId = c2.next + 1,
                                  !.me.account = TRUE]
                  ELSE HwConnect(HwDisconnect(c2), connectOk, hs)

\* as HwEnsureDeviceReady, but a busy device is reconnected instead of reported
HwEnsureDeviceReady_BusyReconnects(c, reconnectOk, connectOk, hs) ==
  IF ~c.me.dmk \/ c.me.sessionId = 0 THEN c
  ELSE LET c1 == HwCall(c, "getDeviceSessionState")
       IN IF c.me.sessionId \notin c.sessions
          THEN HwReconnect(c1, reconnectOk, connectOk, hs)
          ELSE IF c.device = "LOCKED" THEN HwThrow(c1, "DeviceLocked")
          ELSE IF c.device \in {"BUSY", "NOT_CONNECTED"}
               THEN HwReconnect(c1, reconnectOk, connectOk, hs)
          ELSE c1

\* _ensureDeviceReady(context)
HwEnsureDeviceReady(c, reconnectOk, connectOk, hs) ==
  IF ~c.me.dmk \/ c.me.sessionId = 0 THEN c
  ELSE LET c1 == HwCall(c, "getDeviceSessionState")
       IN IF c.me.sessionId \notin c.sessions
          THEN HwReconnect(c1, reconnectOk, connectOk, hs)
          ELSE IF c.device = "LOCKED" THEN HwThrow(c1, "DeviceLocked")
          ELSE IF c.device = "BUSY" THEN HwThrow(c1, "DeviceBusy")
          ELSE IF c.device = "NOT_CONNECTED"
               THEN HwReconnect(c1, reconnectOk, connectOk, hs)
          ELSE c1

\* the first two statements of getAddress, sign, signTransaction, signTypedData
HwPrepare(me, reconnectOk, connectOk, hs) ==
  LET c0 == HwRun(me)
      c1 == IF ~me.account THEN HwConnect(c0, connectOk, hs) ELSE c0
  IN IF c1.ok THEN HwEnsureDeviceReady(c1, reconnectOk, connectOk, hs) ELSE c1

\* r, s, v of the device's answer as one hex string
formatSignatureHex(output) == 500 + output

\* what one operation leaves behind
HwDone(op, h, c) ==
  /\ hwSigners' = [hwSigners EXCEPT ![h] = c.me]
  /\ sessions' = c.sessions
  /\ nextSession' = c.next
  /\ device' = c.device
  /\ hwLast' = [op |-> op, id |-> h, ok |-> c.ok, err |-> c.err, val |-> c.val,
                calls |-> c.calls, hadAccount |-> hwSigners[h].account,
                hadSession |-> hwSigners[h].sessionId \in sessions,
                device |-> device]
\* the inputs of the environment an operation on signer `me` can meet
HwHandshakeInputs(me) ==
  IF me.dmk /\ (~me.account \/ device = "NOT_CONNECTED" \/ me.sessionId \notin sessions)
  THEN HandshakeStreams ELSE {<<>>}

HwConnectInputs(me) ==
  IF me.dmk /\ (~me.account \/ device = "NOT_CONNECTED" \/ me.sessionId \notin sessions)
  THEN BOOLEAN ELSE {TRUE}

HwReconnectInputs(me) ==
  IF me.dmk /\ me.sessionId \in sessions /\ device = "NOT_CONNECTED"
  THEN BOOLEAN ELSE {TRUE}

\* new LedgerSignerEvm(path, config, {dmk})
HwNew(path) ==
  /\ Len(hwSigners) < MaxHwSigners
  /\ hwSigners' = Append(hwSigners, NewLedgerSigner(path, 0))
  /\ hwLast' = [op |-> "new", id |-> Len(hwSigners) + 1, ok |-> TRUE, err |-> "",
                val |-> Undefined, calls |-> <<>>, hadAccount |-> FALSE, hadSession |-> FALSE,
                device |-> device]
  /\ UNCHANGED <<softVars, device, sessions, nextSession, da, fnVars>>

\* derive(relPath, cfg): a new signer on `${this._path}/${relPath}` with this._dmk
HwDerive(h, rel) ==
  /\ h \in 1..Len(hwSigners)
  /\ Len(hwSigners) < MaxHwSigners
  /\ LET child == NewLedgerSigner(hwSigners[h].path \o rel, h)
     IN /\ hwSigners' = Append(hwSigners, child)
        /\ hwLast' = [op |-> "derive", id |-> h, ok |-> TRUE, err |-> "",
                      val |-> Len(hwSigners) + 1, calls |-> <<>>,
                      hadAccount |-> hwSigners[h].account,
                hadSession |-> hwSigners[h].sessionId \in sessions, device |-> device]
  /\ UNCHANGED <<softVars, device, sessions, nextSession, da, fnVars>>

\* getAddress()
HwGetAddress(h, reconnectOk, connectOk, hs) ==
  /\ h \in 1..Len(hwSigners)
  /\ nextSession + 2 <= MaxSessions
  /\ hs \in HwHandshakeInputs(hwSigners[h])
  /\ connectOk \in HwConnectInputs(hwSigners[h])
  /\ reconnectOk \in HwReconnectInputs(hwSigners[h])
  /\ LET c == HwPrepare(hwSigners[h], reconnectOk, connectOk, hs)
     IN HwDone("getAddress", h, IF c.ok THEN [c EXCEPT !.val = c.me.address] ELSE c)
  /\ UNCHANGED <<softVars, da, fnVars>>

\* sign(message), signTransaction(unsignedTx), signTypedData(domain, types, message):
\* ensure the device is ready, issue the action, consume its events
HwSign(h, op, reconnectOk, connectOk, hs, stream) ==
  /\ h \in 1..Len(hwSigners)
  /\ nextSession + 2 <= MaxSessions
  /\ hs \in HwHandshakeInputs(hwSigners[h])
  /\ connectOk \in HwConnectInputs(hwSigners[h])
  /\ reconnectOk \in HwReconnectInputs(hwSigners[h])
  /\ LET c == HwPrepare(hwSigners[h], reconnectOk, connectOk, hs)
         r == consumeDeviceAction(stream)
     IN IF ~c.ok
        THEN /\ stream = <<>>
             /\ HwDone(op, h, c)
        ELSE HwDone(op, h,
                    IF r.ok THEN [HwCall(c, "action") EXCEPT !.val = formatSignatureHex(r.val)]
                    ELSE HwThrow(HwCall(c, "action"), r.err))
  /\ UNCHANGED <<softVars, da, fnVars>>

\* dispose()
HwDispose(h) ==
  /\ h \in 1..Len(hwSigners)
  /\ hwSigners' = [hwSigners EXCEPT ![h].account = FALSE, ![h].dmk = FALSE,
                                    ![h].sessionId = 0, ![h].isActive = FALSE]
  /\ hwLast' = [op |-> "dispose", id |-> h, ok |-> TRUE, err |-> "", val |-> Undefined,
                calls |-> <<>>, hadAccount |-> hwSigners[h].account,
                hadSession |-> hwSigners[h].sessionId \in sessions, device |-> device]
  /\ UNCHANGED <<softVars, device, sessions, nextSession, da, fnVars>>

\* the device is locked, unlocked, taken by another application or unplugged
DeviceSetStatus(st) ==
  /\ st # device
  /\ device' = st
  /\ UNCHANGED <<softVars, sessions, nextSession, hwSigners, hwLast, da, fnVars>>

\* the kit forgets the session of an unplugged device
DmkDropSession(sid) ==
  /\ device = "NOT_CONNECTED"
  /\ sid \in sessions
  /\ sessions' = sessions \ {sid}
  /\ UNCHANGED <<softVars, device, nextSession, hwSigners, hwLast, da, fnVars>>

NextHw ==
  \/ \E path \in HwPaths : HwNew(path)
  \/ \E h \in 1..MaxHwSigners, rel \in HwRelPaths : HwDerive(h, rel)
  \/ \E h \in 1..MaxHwSigners, reconnectOk, connectOk \in BOOLEAN,
        hs \in HandshakeStreams \cup {<<>>} :
       HwGetAddress(h, reconnectOk, connectOk, hs)
  \/ \E h \in 1..MaxHwSigners, op \in SignOps, reconnectOk, connectOk \in BOOLEAN,
        hs \in HandshakeStreams \cup {<<>>}, stream \in ActionStreams :
       HwSign(h, op, reconnectOk, connectOk, hs, stream)
  \/ \E h \in 1..MaxHwSigners : HwDispose(h)
  \/ \E st \in DeviceStatus : DeviceSetStatus(st)
  \/ \E sid \in 1..MaxSessions : DmkDropSession(sid)

NextConsume ==
  \/ DeviceActionEmit
  \/ DeviceActionComplete

\* ---- LedgerSignerEvm: calls that overlap ---------------------------------------
\* Every await is a point where another call on the same signer may run.  The
\* device stays connected and unlocked; what varies is the order of the steps.
CcOps == SignOps \cup {"getAddress"}

CcSet(p, pc, sid) == [cc EXCEPT !.procs[p].pc = pc, !.procs[p].sid = sid]
CcSettle(c, p, ok, err, val) ==
  [c EXCEPT !.procs[p].pc = "done", !.procs[p].ok = ok, !.procs[p].err = err,
            !.procs[p].val = val]

\* the statements after _ensureDeviceReady has returned: getAddress returns
\* this._address; a sign operation issues its action on this._account
CcBody(c, p) ==
  IF c.procs[p].op = "getAddress" THEN CcSettle(c, p, TRUE, "", c.me.address)
  ELSE IF ~c.me.account THEN CcSettle(c, p, FALSE, "TypeError", Undefined)
  ELSE [c EXCEPT !.procs[p].pc = "acting"]

\* _ensureDeviceReady up to its first await: without a session id it returns
\* at once, otherwise it asks the kit for the state of this._sessionId
CcEnsureDeviceReady(c, p) ==
  IF ~c.me.dmk \/ c.me.sessionId = 0 THEN CcBody(c, p)
  ELSE [c EXCEPT !.procs[p].pc = "checking", !.procs[p].sid = c.me.sessionId]

\* a call starts: `if (!this._account) await this._connect()`, and _connect
\* runs up to `await firstValueFrom(this._dmk.startDiscovering({}))`
CcStart(p, op) ==
  /\ cc.procs[p].pc = "idle"
  /\ LET c == [cc EXCEPT !.procs[p].op = op]
     IN cc' = IF ~cc.me.account
              THEN [c EXCEPT !.procs[p].pc = "discovering", !.handshakes = @ + 1]
              ELSE CcEnsureDeviceReady(c, p)
  /\ UNCHANGED <<softVars, hwVars, tx, kd, wm, tr, sk>>

\* the device was discovered: `await this._dmk.connect({device, ...})` is issued
CcDiscovered(p) ==
  /\ cc.procs[p].pc = "discovering"
  /\ cc' = CcSet(p, "connecting", 0)
  /\ UNCHANGED <<softVars, hwVars, tx, kd, wm, tr, sk>>

\* dmk.connect settled: the session id is stored, the device signer built and
\* its getAddress action issued; a rejection leaves _connect at once
CcConnected(p, connectOk) ==
  /\ cc.procs[p].pc = "connecting"
  /\ cc.next < MaxSessions
  /\ cc' = IF connectOk
           THEN [cc EXCEPT !.next = @ + 1,
                           !.sessions = @ \cup {cc.next + 1},
                           !.opened = @ \cup {cc.next + 1},
                           !.me.sessionId = cc.next + 1,
                           !.me.account = TRUE,
                           !.procs[p].pc = "handshake"]
           ELSE CcSettle(cc, p, FALSE, "ConnectionError", Undefined)
  /\ UNCHANGED <<softVars, hwVars, tx, kd, wm, tr, sk>>

\* the getAddress action of _connect settled: address and isActive are set and
\* the call goes on to _ensureDeviceReady; on failure _disconnect() is entered,
\* which closes this._sessionId when the signer still holds a session
CcHandshakeSettled(p, hs) ==
  /\ cc.procs[p].pc = "handshake"
  /\ LET r == consumeDeviceAction(hs)
     IN cc' = IF r.ok
              THEN CcEnsureDeviceReady([cc EXCEPT !.me.address = r.val,
                                                  !.me.isActive = TRUE], p)
              ELSE IF cc.me.account /\ cc.me.dmk /\ cc.me.sessionId # 0
              THEN [cc EXCEPT !.procs[p].pc = "disconnecting",
                              !.procs[p].sid = cc.me.sessionId,
                              !.procs[p].err = r.err]
              ELSE CcSettle([cc EXCEPT !.me.account = FALSE, !.me.sessionId = 0,
                                       !.me.isActive = FALSE],
                            p, FALSE, r.err, Undefined)
  /\ UNCHANGED <<softVars, hwVars, tx, kd, wm, tr, sk>>

\* dmk.disconnect settled: the finally block resets the fields, the error of
\* the handshake is rethrown
CcDisconnected(p) ==
  /\ cc.procs[p].pc = "disconnecting"
  /\ cc' = CcSettle([cc EXCEPT !.sessions = @ \ {cc.procs[p].sid},
                               !.me.account = FALSE, !.me.sessionId = 0,
                               !.me.isActive = FALSE],
                    p, FALSE, cc.procs[p].err, Undefined)
  /\ UNCHANGED <<softVars, hwVars, tx, kd, wm, tr, sk>>

\* getDeviceSessionState settled: a session the kit knows reports CONNECTED;
\* for one it no longer knows the read throws and _reconnect() runs, here
\* without another call stepping in
CcStateRead(p, reconnectOk, connectOk, hs) ==
  /\ cc.procs[p].pc = "checking"
  /\ IF cc.procs[p].sid \in cc.sessions
     THEN /\ reconnectOk /\ connectOk /\ hs = <<>>
          /\ cc' = CcBody(cc, p)
     ELSE /\ cc.next < MaxSessions
          /\ hs \in HandshakeStreams
          /\ LET c == HwReconnect([me |-> cc.me, sessions |-> cc.sessions,
                                   next |-> cc.next, device |-> "CONNECTED",
                                   calls |-> <<>>, ok |-> TRUE, err |-> "",
                                   val |-> Undefined],
                                  reconnectOk, connectOk, hs)
                 d == [cc EXCEPT !.me = c.me, !.sessions = c.sessions,
                                 !.opened = @ \cup (c.sessions \ cc.sessions),
                                 !.next = c.next,
                                 !.handshakes =
                                    @ + Cardinality({i \in 1..Len(c.calls) :
                                                       c.calls[i] = "startDiscovering"})]
             IN cc' = IF c.ok THEN CcBody(d, p)
                      ELSE CcSettle(d, p, FALSE, c.err, Undefined)
  /\ UNCHANGED <<softVars, hwVars, tx, kd, wm, tr, sk>>

\* the action of a sign operation settled
CcActionSettled(p, stream) ==
  /\ cc.procs[p].pc = "acting"
  /\ LET r == consumeDeviceAction(stream)
     IN cc' = IF r.ok THEN CcSettle(cc, p, TRUE, "", formatSignatureHex(r.val))
              ELSE CcSettle(cc, p, FALSE, r.err, Undefined)
  /\ UNCHANGED <<softVars, hwVars, tx, kd, wm, tr, sk>>

NextCc ==
  \/ \E p \in 1..MaxConcurrentCalls, op \in CcOps : CcStart(p, op)
  \/ \E p \in 1..MaxConcurrentCalls : CcDiscovered(p)
  \/ \E p \in 1..MaxConcurrentCalls, connectOk \in BOOLEAN : CcConnected(p, connectOk)
  \/ \E p \in 1..MaxConcurrentCalls, hs \in HandshakeStreams : CcHandshakeSettled(p, hs)
  \/ \E p \in 1..MaxConcurrentCalls : CcDisconnected(p)
  \/ \E p \in 1..MaxConcurrentCalls, reconnectOk, connectOk \in BOOLEAN,
        hs \in HandshakeStreams \cup {<<>>} : CcStateRead(p, reconnectOk, connectOk, hs)
  \/ \E p \in 1..MaxConcurrentCalls, stream \in ActionStreams : CcActionSettled(p, stream)

\* ---- MemorySafeHDNodeWallet: the signingKey accessor as written -------------------
\* the members of the class that read this.signingKey
SigningKeyReaders ==
  {"signingKey", "privateKeyBuffer", "publicKeyBuffer", "connect", "deriveChild", "dispose"}

\* a member is called and its read of this.signingKey invokes the getter
SkRead(op) ==
  /\ sk.state \in {"idle", "RangeError"}
  /\ sk' = [op |-> op, depth |-> 1, state |-> "reading"]
  /\ UNCHANGED <<softVars, hwVars, tx, kd, wm, tr, cc>>

\* get signingKey () { return this.signingKey }: the getter's body reads the
\* same property of the same object, which invokes the getter again
SkGetterBody ==
  /\ sk.state = "reading"
  /\ sk.depth < MaxStackDepth
  /\ sk' = [sk EXCEPT !.depth = @ + 1]
  /\ UNCHANGED <<softVars, hwVars, tx, kd, wm, tr, cc>>

\* the call stack is full: the engine throws RangeError, which unwinds every
\* frame of the getter and the member that started the read
SkStackExhausted ==
  /\ sk.state = "reading"
  /\ sk.depth = MaxStackDepth
  /\ sk' = [sk EXCEPT !.state = "RangeError", !.depth = 0]
  /\ UNCHANGED <<softVars, hwVars, tx, kd, wm, tr, cc>>

NextSk ==
  \/ \E op \in SigningKeyReaders : SkRead(op)
  \/ SkGetterBody
  \/ SkStackExhausted

\* ---- populateTransactionEvm -------------------------------------------------------
\* a property that was never assigned on the returned object
Absent == -3

\* what the caller can put in the partial transaction (Null: left out)
TxTypes == {Null, 0, 1, 2, 3, 4}
PartialTxs ==
  [type : TxTypes, gasPrice : {Null, 20}, maxFeePerGas : {Null, 30},
   maxPriorityFeePerGas : {Null, 3}, maxFeePerBlobGas : {Null, 5},
   blobs : {Null, 61}, blobVersionedHashes : {Null, 62}, accessList : {Null, 63},
   nonce : {Null, 7}, gasLimit : {Null, 21000}]

\* what provider.getFeeData() can answer (Null: the network does not report it)
FeeDatas == [gasPrice : {Null, 21}, maxFeePerGas : {Null, 31}, maxPriorityFeePerGas : {Null, 4}]

\* provider.getNetwork().chainId, getTransactionCount(from, 'pending'), estimateGas(...)
ChainId == 1
GasEstimate == 50000
\* what getTransactionCount can answer from one call to the next
PendingNonces == {PendingNonce, PendingNonce + 1}

\* a ?? b
Coalesce(a, b) == IF a # Null THEN a ELSE b

has1559(t) == t.maxFeePerGas # Null \/ t.maxPriorityFeePerGas # Null
hasLegacy(t) == t.gasPrice # Null
hasAccessList(t) == t.accessList # Null
hasBlobs(t) == t.blobs # Null \/ t.blobVersionedHashes # Null \/ t.maxFeePerBlobGas # Null

\* as checkFeeFields, without the blob / gasPrice check
checkFeeFields_NoBlobCheck(t) ==
  IF (t.type = 2 \/ (t.type = Null /\ has1559(t))) /\ hasLegacy(t)
  THEN "eip-1559 transaction does not support gasPrice"
  ELSE IF t.type \in {0, 1} /\ has1559(t)
  THEN "pre-eip-1559 transaction does not support maxFeePerGas/maxPriorityFeePerGas"
  ELSE ""

\* the three checks before getFeeData: the message thrown, "" when none is
checkFeeFields(t) ==
  IF (t.type = 2 \/ (t.type = Null /\ has1559(t))) /\ hasLegacy(t)
  THEN "eip-1559 transaction does not support gasPrice"
  ELSE IF t.type \in {0, 1} /\ has1559(t)
  THEN "pre-eip-1559 transaction does not support maxFeePerGas/maxPriorityFeePerGas"
  ELSE IF (t.type = 3 \/ hasBlobs(t)) /\ hasLegacy(t)
  THEN "blob transaction does not support gasPrice"
  ELSE ""

\* as resolveType, but the network's fee model is looked at before the blob fields
resolveType_NetworkFirst(t, feeData) ==
  IF t.type # Null THEN t.type
  ELSE IF feeData.maxFeePerGas # Null /\ feeData.maxPriorityFeePerGas # Null THEN 2
  ELSE IF hasBlobs(t) THEN 3
  ELSE 0

\* as resolveType, but blob fields do not select type 3
resolveType_IgnoresBlobs(t, feeData) ==
  IF t.type # Null THEN t.type
  ELSE IF feeData.maxFeePerGas # Null /\ feeData.maxPriorityFeePerGas # Null THEN 2
  ELSE 0

\* let type = explicitType; if (type == null) { ... }
resolveType(t, feeData) ==
  IF t.type # Null THEN t.type
  ELSE IF hasBlobs(t) THEN 3
  ELSE IF feeData.maxFeePerGas # Null /\ feeData.maxPriorityFeePerGas # Null THEN 2
  ELSE 0

\* the object literal `populated`, before the fee fields are assigned
PopulatedBase(t, pending) ==
  [chainId |-> ChainId,
   nonce |-> IF t.nonce # Null THEN t.nonce ELSE pending,
   gasLimit |-> IF t.gasLimit # Null THEN t.gasLimit ELSE GasEstimate,
   type |-> Absent, gasPrice |-> Absent, maxFeePerGas |-> Absent,
   maxPriorityFeePerGas |-> Absent, maxFeePerBlobGas |-> Absent, blobs |-> Absent,
   blobVersionedHashes |-> Absent, accessList |-> Absent]

\* the provider calls made up to the point the fee fields are assigned
ProviderCalls(t) ==
  <<"getNetwork", "getFeeData">>
    \o (IF t.nonce = Null THEN <<"getTransactionCount">> ELSE <<>>)
    \o (IF t.gasLimit = Null THEN <<"estimateGas">> ELSE <<>>)

WithAccessList(t, p) == IF hasAccessList(t) THEN [p EXCEPT !.accessList = t.accessList] ELSE p

WithBlobs(t, p) ==
  [p EXCEPT !.blobs = IF t.blobs # Null THEN t.blobs ELSE @,
            !.blobVersionedHashes =
               IF t.blobVersionedHashes # Null THEN t.blobVersionedHashes ELSE @]

\* as Type2Fees, but a gasPrice of the caller is not carried over
Type2Fees_NetworkFees(t, feeData, p) ==
  [p EXCEPT !.type = 2,
            !.maxFeePerGas = Coalesce(t.maxFeePerGas, feeData.maxFeePerGas),
            !.maxPriorityFeePerGas =
               Coalesce(t.maxPriorityFeePerGas, feeData.maxPriorityFeePerGas)]

\* if (type === 2) { ... }: the fee fields of a type-2 transaction
Type2Fees(t, feeData, p) ==
  IF t.gasPrice # Null
  THEN [p EXCEPT !.type = 2, !.maxFeePerGas = t.gasPrice,
                 !.maxPriorityFeePerGas = t.gasPrice]
  ELSE [p EXCEPT !.type = 2,
                 !.maxFeePerGas = Coalesce(t.maxFeePerGas, feeData.maxFeePerGas),
                 !.maxPriorityFeePerGas =
                    Coalesce(t.maxPriorityFeePerGas, feeData.maxPriorityFeePerGas)]

\* populateTransactionEvm(provider, from, tx)
populateTransactionEvm(feeData, pending, t) ==
  LET bad == checkFeeFields(t)
      type == resolveType(t, feeData)
      p == PopulatedBase(t, pending)
  IN IF bad # ""
     THEN [ok |-> FALSE, err |-> bad, calls |-> <<"getNetwork">>, out |-> Undefined]
     ELSE IF type \in {0, 1}
     THEN [ok |-> TRUE, err |-> "", calls |-> ProviderCalls(t),
           out |-> LET q == [p EXCEPT !.type = type,
                                      !.gasPrice = Coalesce(t.gasPrice,
                                          Coalesce(feeData.gasPrice, feeData.maxFeePerGas))]
                   IN IF type = 1 THEN WithAccessList(t, q) ELSE q]
     ELSE IF type = 2
     THEN [ok |-> TRUE, err |-> "", calls |-> ProviderCalls(t),
           out |-> WithAccessList(t, Type2Fees(t, feeData, p))]
     ELSE IF type = 3
     THEN IF t.maxFeePerBlobGas = Null
          THEN [ok |-> FALSE, err |-> "maxFeePerBlobGas is required for type 3 transactions",
                calls |-> ProviderCalls(t), out |-> Undefined]
          ELSE [ok |-> TRUE, err |-> "", calls |-> ProviderCalls(t),
                out |-> WithAccessList(t, WithBlobs(t,
                          [p EXCEPT !.type = 3,
                                    !.maxFeePerGas =
                                       Coalesce(t.maxFeePerGas, feeData.maxFeePerGas),
                                    !.maxPriorityFeePerGas =
                                       Coalesce(t.maxPriorityFeePerGas,
                                                feeData.maxPriorityFeePerGas),
                                    !.maxFeePerBlobGas = t.maxFeePerBlobGas]))]
     ELSE [ok |-> TRUE, err |-> "", calls |-> ProviderCalls(t),
           out |-> LET q1 == WithAccessList(t, [p EXCEPT !.type = type])
                       q2 == IF hasLegacy(t) THEN [q1 EXCEPT !.gasPrice = t.gasPrice] ELSE q1
                       q3 == IF has1559(t)
                             THEN [q2 EXCEPT !.maxFeePerGas = t.maxFeePerGas,
                                             !.maxPriorityFeePerGas = t.maxPriorityFeePerGas]
                             ELSE q2
                   IN IF hasBlobs(t)
                      THEN WithBlobs(t, [q3 EXCEPT !.maxFeePerBlobGas = t.maxFeePerBlobGas])
                      ELSE q3]

\* as getFeeData, but every call is served the answer the previous call got
getFeeData_Memoised(answer) ==
  IF tx.log # <<>> THEN tx.log[Len(tx.log)].feeData ELSE answer

\* const feeData = await provider.getFeeData(): asked anew on every call
getFeeData(answer) == answer

\* one settled populate call: what went in and what came out
TxCall(input, feeData, pending, r) ==
  [input |-> input, feeData |-> feeData, pending |-> pending,
   ok |-> r.ok, err |-> r.err, out |-> r.out]

\* await populateTransactionEvm(provider, from, tx)
PopulateTransaction ==
  /\ ~tx.done
  /\ LET r == populateTransactionEvm(getFeeData(tx.feeData), tx.pending, tx.input)
     IN tx' = [tx EXCEPT !.done = TRUE, !.ok = r.ok, !.err = r.err,
                         !.calls = r.calls, !.out = r.out,
                         !.log = Append(@, TxCall(tx.input, tx.feeData, tx.pending, r))]
  /\ UNCHANGED <<softVars, hwVars, kd, wm, tr, cc, sk>>

\* the partial transactions and network answers of a sequence of calls
SeqPartialTxs ==
  {[EmptyTx EXCEPT !.type = ty, !.gasPrice = gp] : ty \in {Null, 0}, gp \in {Null, 20}}
SeqFeeDatas == {FullFeeData, [FullFeeData EXCEPT !.maxFeePerGas = Null]}

\* the caller sets up another call, after the previous one has settled; the
\* network may answer differently by then
PopulateAgain(input, feeData, pending) ==
  /\ tx.done
  /\ Len(tx.log) < MaxCalls
  /\ tx' = [tx EXCEPT !.input = input, !.feeData = feeData, !.pending = pending,
                      !.done = FALSE, !.ok = FALSE, !.err = "", !.calls = <<>>,
                      !.out = Undefined]
  /\ UNCHANGED <<softVars, hwVars, kd, wm, tr, cc, sk>>

NextTx == PopulateTransaction

\* several populate calls in a row
NextTxSeq ==
  \/ PopulateTransaction
  \/ \E input \in SeqPartialTxs, feeData \in SeqFeeDatas, pending \in PendingNonces :
       PopulateAgain(input, feeData, pending)

\* ---- path strings ------------------------------------------------------------------
\* A string is the sequence of its characters.
Digits == {"0", "1", "2", "3", "4", "5", "6", "7", "8", "9"}
DigitValue(ch) ==
  CASE ch = "0" -> 0 [] ch = "1" -> 1 [] ch = "2" -> 2 [] ch = "3" -> 3 [] ch = "4" -> 4
    [] ch = "5" -> 5 [] ch = "6" -> 6 [] ch = "7" -> 7 [] ch = "8" -> 8 [] ch = "9" -> 9
DigitChar(d) == CHOOSE ch \in Digits : DigitValue(ch) = d

\* 0x80000000 scaled to 2^6, above the 44 and 60 of the BIP-44 prefix
HardenedBit == 64

\* component.match(/^[0-9]+$/)
IsDecimal(s) == Len(s) > 0 /\ \A i \in 1..Len(s) : s[i] \in Digits
\* component.match(/^[0-9]+'$/)
IsHardenedDecimal(s) ==
  Len(s) > 1 /\ s[Len(s)] = "'" /\ IsDecimal(SubSeq(s, 1, Len(s) - 1))

\* parseInt on a string of decimal digits
RECURSIVE parseInt(_)
parseInt(s) ==
  IF s = <<>> THEN 0
  ELSE 10 * parseInt(SubSeq(s, 1, Len(s) - 1)) + DigitValue(s[Len(s)])

\* path.split('/')
RECURSIVE Split(_)
Split(s) ==
  IF \A i \in 1..Len(s) : s[i] # "/" THEN <<s>>
  ELSE LET i == CHOOSE j \in 1..Len(s) : s[j] = "/" /\ \A h \in 1..(j - 1) : s[h] # "/"
       IN <<SubSeq(s, 1, i - 1)>> \o Split(SubSeq(s, i + 1, Len(s)))

\* `${index}` for an integer index
RECURSIVE NumberToString(_)
NumberToString(i) ==
  IF i < 0 THEN <<"-">> \o NumberToString(0 - i)
  ELSE IF i < 10 THEN <<DigitChar(i)>>
  ELSE NumberToString(i \div 10) \o <<DigitChar(i % 10)>>

\* the string "m/44'/60'"
BIP_44_ETH_DERIVATION_PATH_PREFIX_STRING == <<"m", "/", "4", "4", "'", "/", "6", "0", "'">>

\* as parseComponent, without the bound on the index
parseComponent_NoIndexCheck(component) ==
  IF IsHardenedDecimal(component)
  THEN [err |-> "", c |-> Comp(parseInt(SubSeq(component, 1, Len(component) - 1)), TRUE)]
  ELSE IF IsDecimal(component)
  THEN [err |-> "", c |-> Comp(parseInt(component), FALSE)]
  ELSE [err |-> "invalid path component", c |-> Comp(0, FALSE)]

\* the body of derivePath's loop, up to the deriveChild call: the index the
\* component denotes, or the argument error it raises
parseComponent(component) ==
  IF IsHardenedDecimal(component)
  THEN LET index == parseInt(SubSeq(component, 1, Len(component) - 1))
       IN IF index < HardenedBit THEN [err |-> "", c |-> Comp(index, TRUE)]
          ELSE [err |-> "invalid path index", c |-> Comp(index, TRUE)]
  ELSE IF IsDecimal(component)
  THEN LET index == parseInt(component)
       IN IF index < HardenedBit THEN [err |-> "", c |-> Comp(index, FALSE)]
          ELSE [err |-> "invalid path index", c |-> Comp(index, FALSE)]
  ELSE [err |-> "invalid path component", c |-> Comp(0, FALSE)]

\* derivePath's loop over the components: `derived` counts the deriveChild
\* calls that returned; k is the content of the buffer all of them wrote to
RECURSIVE deriveComponents(_, _, _, _, _)
deriveComponents(k, chainCode, publicKey, components, derived) ==
  IF components = <<>>
  THEN [ok |-> TRUE, err |-> "", k |-> k, chainCode |-> chainCode,
        publicKey |-> publicKey, derived |-> derived]
  ELSE LET pc == parseComponent(Head(components))
       IN IF pc.err # ""
          THEN [ok |-> FALSE, err |-> pc.err, k |-> k, chainCode |-> chainCode,
                publicKey |-> publicKey, derived |-> derived]
          ELSE CHOOSE out \in
                 {IF r.ok
                  THEN deriveComponents(r.k, r.chainCode, r.publicKey, rest, derived + 1)
                  ELSE [ok |-> FALSE, err |-> r.err, k |-> r.k, chainCode |-> chainCode,
                        publicKey |-> publicKey, derived |-> derived] :
                  r \in {DeriveChildStep(k, chainCode, publicKey, pc.c)},
                  rest \in {Tail(components)}} : TRUE

\* derivePath(node, path) on a path string
derivePathString(k, chainCode, publicKey, depth, path) ==
  CHOOSE out \in
    {IF Head(components) = <<"m">>
     THEN IF depth = 0
          THEN deriveComponents(k, chainCode, publicKey, Tail(components), 0)
          ELSE [ok |-> FALSE, err |-> "cannot derive root path", k |-> k,
                chainCode |-> chainCode, publicKey |-> publicKey, derived |-> 0]
     ELSE deriveComponents(k, chainCode, publicKey, components, 0) :
     components \in {Split(path)}} : TRUE

\* ---- WalletManagerEvm over a SeedSignerEvm ---------------------------------------------
\* the value of a string that is not a number, under unary plus
NaN == -4

\* as FullPath, without the BIP-44 prefix
FullPath_Unprefixed(relPath) == relPath

\* `${BIP_44_ETH_DERIVATION_PATH_PREFIX}/${opts.path}`
FullPath(relPath) == BIP_44_ETH_DERIVATION_PATH_PREFIX_STRING \o <<"/">> \o relPath

\* get index (): +this._path.split('/').pop()
SignerIndex(path) ==
  LET component == Split(path)[Len(Split(path))]
  IN IF component = <<>> THEN 0
     ELSE IF IsDecimal(component) THEN parseInt(component)
     ELSE NaN

\* signer.derive(relPath) = new SeedSignerEvm(null, {root, path: relPath}) on
\* a live root signer: an empty path leaves the new signer a root; otherwise
\* the full path is walked from the root node, in the root's own buffer
SeedSignerDerive(signer, relPath) ==
  IF relPath = <<>>
  THEN [ok |-> TRUE, err |-> "", isRoot |-> TRUE, path |-> <<>>, address |-> Undefined,
        k |-> signer.k, parsed |-> FALSE, derived |-> 0]
  ELSE CHOOSE out \in
         {[ok |-> r.ok, err |-> r.err, isRoot |-> FALSE, path |-> fullPath,
           address |-> IF r.ok THEN computeAddress(r.publicKey) ELSE Undefined,
           k |-> r.k, parsed |-> TRUE, derived |-> r.derived] :
          fullPath \in {FullPath(relPath)},
          r \in {derivePathString(signer.k, signer.chainCode, signer.publicKey, 0,
                                  FullPath(relPath))}} : TRUE

\* as AccountsLookup, but nothing is ever found
AccountsLookup_Miss(cache, key) == {}

\* this._accounts[key]
AccountsLookup(cache, key) == {e \in cache : e.key = key}

\* `${signerName}:${path}`
AccountKey(signerName, path) == signerName \o <<":">> \o path

\* the body of getAccountByPath(path, signerName); op and index say which
\* method the caller used
GetAccountByPathBody(op, index, path, signerName) ==
  LET key == AccountKey(signerName, path)
      hit == AccountsLookup(wm.accounts, key)
      signer == wm.signers[signerName]
      id == Len(wm.objects) + 1
      res(ok, err, val, cached, parsed, derived) ==
        [op |-> op, signerName |-> signerName, path |-> path, index |-> index,
         ok |-> ok, err |-> err, val |-> val, cached |-> cached,
         parsed |-> parsed, derived |-> derived]
  IN IF hit # {}
     THEN LET e == CHOOSE x \in hit : TRUE
          IN wm' = [wm EXCEPT !.calls = @ + 1,
                              !.returned = @ \cup {<<signerName, path, e.id>>},
                              !.last = res(TRUE, "", e.id, TRUE, FALSE, 0)]
     ELSE IF ~signer.present
     THEN wm' = [wm EXCEPT !.calls = @ + 1,
                           !.last = res(FALSE, "Signer not found", 0, FALSE, FALSE, 0)]
     ELSE \E d \in {SeedSignerDerive(signer, path)} :
       IF ~d.ok
       THEN wm' = [wm EXCEPT !.calls = @ + 1,
                             !.signers[signerName].k = d.k,
                             !.last = res(FALSE, d.err, 0, FALSE, d.parsed, d.derived)]
       ELSE IF d.isRoot
       THEN wm' = [wm EXCEPT !.calls = @ + 1,
                             !.last = res(FALSE, "The signer is the root signer", 0,
                                          FALSE, d.parsed, d.derived)]
       ELSE /\ Len(wm.objects) < MaxManagerAccounts
            /\ wm' = [wm EXCEPT !.calls = @ + 1,
                                !.signers[signerName].k = d.k,
                                !.objects = Append(@, [path |-> d.path,
                                                       index |-> SignerIndex(d.path),
                                                       address |-> d.address,
                                                       signerName |-> signerName]),
                                !.accounts = @ \cup {[key |-> key, id |-> id]},
                                !.returned = @ \cup {<<signerName, path, id>>},
                                !.last = res(TRUE, "", id, FALSE, d.parsed, d.derived)]

\* manager.getAccountByPath(path, signerName)
GetAccountByPath(path, signerName) ==
  /\ wm.calls < MaxManagerCalls
  /\ GetAccountByPathBody("getAccountByPath", 0, path, signerName)
  /\ UNCHANGED <<softVars, hwVars, tx, kd, tr, cc, sk>>

\* manager.getAccount(index, signerName)
GetAccount(index, signerName) ==
  /\ wm.calls < MaxManagerCalls
  /\ GetAccountByPathBody("getAccount", index,
                          <<"0", "'", "/", "0", "/">> \o NumberToString(index), signerName)
  /\ UNCHANGED <<softVars, hwVars, tx, kd, tr, cc, sk>>

\* manager.createSigner(signerName, new SeedSignerEvm(seed))
CreateSigner(signerName, seed) ==
  /\ wm.calls < MaxManagerCalls
  /\ ValidScalar(computeHmac(MasterSecret, seed, 0).IL)
  /\ wm' = [wm EXCEPT !.signers[signerName] = RootSigner(seed),
                      !.calls = @ + 1,
                      !.last = [op |-> "createSigner", signerName |-> signerName,
                                path |-> <<>>, index |-> 0, ok |-> TRUE, err |-> "",
                                val |-> 0, cached |-> FALSE, parsed |-> FALSE,
                                derived |-> 0]]
  /\ UNCHANGED <<softVars, hwVars, tx, kd, tr, cc, sk>>

\* account.dispose() on an account the manager returned for the default
\* signer: WalletAccountEvm.dispose calls the child signer's dispose, which
\* wipes the child's container and the root node it shares with the root
\* signer; the manager is not told.  On a second call the child's container
\* is already detached and the wipe throws.
WmAccountDispose(id) ==
  /\ wm.calls < MaxManagerCalls
  /\ id \in 1..Len(wm.objects)
  /\ wm.objects[id].signerName = DefaultSigner
  /\ LET res(ok, err) ==
           [op |-> "dispose", signerName |-> DefaultSigner, path |-> <<>>, index |-> 0,
            ok |-> ok, err |-> err, val |-> id, cached |-> FALSE, parsed |-> FALSE,
            derived |-> 0]
     IN wm' = IF id \in wm.disposed
              THEN [wm EXCEPT !.calls = @ + 1, !.last = res(FALSE, "TypeError")]
              ELSE [wm EXCEPT !.calls = @ + 1,
                              !.disposed = @ \cup {id},
                              !.signers[DefaultSigner].k = Undefined,
                              !.last = res(TRUE, "")]
  /\ UNCHANGED <<softVars, hwVars, tx, kd, tr, cc, sk>>

\* the relative paths callers ask for: "0'/0/0", "0'/0/00", "1'/2/3", "a'/b/c",
\* "0'/0/64", "64'/0/0", "0'/0/" and ""
ManagerPaths ==
  {<<"0", "'", "/", "0", "/", "0">>,
   <<"0", "'", "/", "0", "/", "0", "0">>,
   <<"1", "'", "/", "2", "/", "3">>,
   <<"a", "'", "/", "b", "/", "c">>,
   <<"0", "'", "/", "0", "/", "6", "4">>,
   <<"6", "4", "'", "/", "0", "/", "0">>,
   <<"0", "'", "/", "0", "/">>,
   <<>>}
\* the account indexes callers ask for
AccountIndexes == {-1, 0, 1, HardenedBit}

NextWm ==
  \/ \E path \in ManagerPaths, signerName \in SignerNames : GetAccountByPath(path, signerName)
  \/ \E index \in AccountIndexes, signerName \in SignerNames : GetAccount(index, signerName)
  \/ \E seed \in Seeds : CreateSigner(<<"b">>, seed)

\* a manager whose callers also dispose the accounts they were given
NextWmDispose ==
  \/ NextWm
  \/ \E id \in 1..MaxManagerAccounts : WmAccountDispose(id)

\* ---- WalletAccountEvm.transfer ----------------------------------------------------------
\* as ExceedsTransferMaxFee, but a fee equal to the ceiling passes
ExceedsTransferMaxFee_Strict(transferMaxFee, fee) ==
  transferMaxFee # Undefined /\ fee > transferMaxFee

\* this._config.transferMaxFee !== undefined && fee >= this._config.transferMaxFee
ExceedsTransferMaxFee(transferMaxFee, fee) ==
  transferMaxFee # Undefined /\ fee >= transferMaxFee

\* sendTransaction(tx) on a connected account: quote, getAddress, populate,
\* signer.signTransaction, eth_sendRawTransaction; the calls made and the
\* error that ended them
SendTransactionCalls(case) ==
  IF ~case.quoteOk
  THEN [ok |-> FALSE, err |-> "QuoteFailed", calls |-> <<"quoteSendTransaction">>]
  ELSE IF ~case.signOk
  THEN [ok |-> FALSE, err |-> "SignFailed",
        calls |-> <<"quoteSendTransaction", "populateTransactionEvm", "signTransaction">>]
  ELSE IF ~case.sendOk
  THEN [ok |-> FALSE, err |-> "SendFailed",
        calls |-> <<"quoteSendTransaction", "populateTransactionEvm", "signTransaction",
                    "eth_sendRawTransaction">>]
  ELSE [ok |-> TRUE, err |-> "",
        calls |-> <<"quoteSendTransaction", "populateTransactionEvm", "signTransaction",
                    "eth_sendRawTransaction">>]

\* account.transfer(options)
Transfer ==
  /\ ~tr.done
  /\ LET case == tr.case
         send == SendTransactionCalls(case)
         quoted == <<"_getTransferTransaction", "quoteSendTransaction">>
         res(ok, err, calls, fee) ==
           [tr EXCEPT !.done = TRUE, !.ok = ok, !.err = err, !.calls = calls, !.fee = fee]
     IN IF ~case.provider
        THEN tr' = res(FALSE, "The wallet must be connected to a provider to transfer tokens.",
                       <<>>, Undefined)
        ELSE IF ~case.quoteOk
        THEN tr' = res(FALSE, "QuoteFailed", quoted, Undefined)
        ELSE IF ExceedsTransferMaxFee(case.transferMaxFee, case.fee)
        THEN tr' = res(FALSE, "Exceeded maximum fee cost for transfer operation.",
                       quoted, Undefined)
        ELSE tr' = res(send.ok, send.err, quoted \o send.calls,
                       IF send.ok THEN case.fee ELSE Undefined)
  /\ UNCHANGED <<softVars, hwVars, tx, kd, wm, cc, sk>>

NextTr == Transfer

\* ---- the scalar arithmetic of deriveChild --------------------------------------
\* the 32-byte values IL can take, and the parent scalars a node can hold
ILs == 0..(ByteMod - 1)
ParentScalars == {k \in 0..(ByteMod - 1) : ValidScalar(k)}

\* deriveChild from `addToPrivateKey` to `new MemorySafeSigningKey(buffer)`:
\* IL is added into the buffer that holds k, and the container is built on
\* the result (the constructor derives the public key, which fails on a
\* scalar that is not in 1..n-1)
DeriveChildScalar ==
  /\ ~kd.done
  /\ LET r == addAndReduce(kd.k, kd.IL)
     IN kd' = [kd EXCEPT !.done = TRUE, !.key = r.key, !.overflow = r.overflow,
                         !.subtracted = r.subtracted, !.ok = ValidScalar(r.key)]
  /\ UNCHANGED <<softVars, hwVars, tx, wm, tr, cc, sk>>

NextKd == DeriveChildScalar

\* the HD node tree on its own
NextHD ==
  \/ \E seed \in Seeds : NodeFromSeed(seed)
  \/ \E n \in 1..MaxNodes, c \in ChildIndexes : NodeDeriveChild(n, c)
  \/ \E n \in 1..MaxNodes : NodeConnect(n)
  \/ \E n \in 1..MaxNodes, d \in Digests : NodeSign(n, d)
  \/ \E n \in 1..MaxNodes : NodeReadKey(n)
  \/ \E n \in 1..MaxNodes : NodeDispose(n)

\* the signer layer: both software signers and the accounts that wrap them
Next ==
  \/ \E seed \in Seeds : NewSeedSigner(seed)
  \/ \E s \in 1..MaxSigners, rel \in RelPaths : SeedDerive(s, rel)
  \/ \E s \in 1..MaxSigners, op \in SignOps, d \in Digests : SeedSign(s, op, d)
  \/ \E s \in 1..MaxSigners : SeedGetAddress(s)
  \/ \E s \in 1..MaxSigners : SeedKeyPair(s)
  \/ \E s \in 1..MaxSigners : SeedDispose(s)
  \/ \E key \in PrivateKeys : NewPkSigner(key)
  \/ \E p \in 1..MaxPkSigners : PkGetAddress(p)
  \/ \E p \in 1..MaxPkSigners, op \in SignOps, d \in Digests : PkSign(p, op, d)
  \/ \E p \in 1..MaxPkSigners, rel \in PkDeriveInputs : PkDerive(p, rel)
  \/ \E p \in 1..MaxPkSigners : PkKeyPair(p)
  \/ \E p \in 1..MaxPkSigners : PkDispose(p)
  \/ \E h \in SignerHandles : NewAccount(h)
  \/ \E a \in 1..MaxAccounts : AccountGetAddress(a)
  \/ \E a \in 1..MaxAccounts : AccountKeyPair(a)
  \/ \E a \in 1..MaxAccounts, d \in Digests : AccountSign(a, d)
  \/ \E a \in 1..MaxAccounts, d \in Digests : AccountSendTransaction(a, d)
  \/ \E a \in 1..MaxAccounts : AccountDispose(a)

Spec == Init /\ [][Next]_vars
SpecHD == Init /\ [][NextHD]_vars

\* the hardware signer with its device
SpecHw == Init /\ [][NextHw]_vars

\* one device action, for every event stream the device can answer with
InitConsume ==
  /\ InitSoft
  /\ InitHw
  /\ \E stream \in StreamsUpTo(MaxEvents) : InitDa(stream)
  /\ InitTx(EmptyTx, FullFeeData)
  /\ InitKd(1, 0)
  /\ InitWm(2)
  /\ InitTr(NoTransfer)
  /\ InitCc
  /\ InitSk

SpecConsume == InitConsume /\ [][NextConsume]_vars
\* the same, on a source that goes on emitting until it has completed
SpecConsumeLive == InitConsume /\ [][NextConsume]_vars /\ WF_vars(NextConsume)

\* populate, for every partial transaction and every answer of the network
InitPopulate ==
  /\ InitSoft
  /\ InitHw
  /\ InitDa(<<>>)
  /\ \E input \in PartialTxs, feeData \in FeeDatas : InitTx(input, feeData)
  /\ InitKd(1, 0)
  /\ InitWm(2)
  /\ InitTr(NoTransfer)
  /\ InitCc
  /\ InitSk

SpecTx == InitPopulate /\ [][NextTx]_vars

\* calls that overlap on one hardware signer
SpecCc == Init /\ [][NextCc]_vars

\* reads of the signingKey accessor
SpecSk == Init /\ [][NextSk]_vars

\* the child scalar, for every parent scalar and every IL
InitChildScalar ==
  /\ InitSoft
  /\ InitHw
  /\ InitDa(<<>>)
  /\ InitTx(EmptyTx, FullFeeData)
  /\ \E k \in ParentScalars, IL \in ILs : InitKd(k, IL)
  /\ InitWm(2)
  /\ InitTr(NoTransfer)
  /\ InitCc
  /\ InitSk

SpecKd == InitChildScalar /\ [][NextKd]_vars

\* a wallet manager on a seed, asked for accounts
InitManager ==
  /\ InitSoft
  /\ InitHw
  /\ InitDa(<<>>)
  /\ InitTx(EmptyTx, FullFeeData)
  /\ InitKd(1, 0)
  /\ \E seed \in Seeds : InitWm(seed)
  /\ InitTr(NoTransfer)
  /\ InitCc
  /\ InitSk

SpecWm == InitManager /\ [][NextWm]_vars
SpecWmDispose == InitManager /\ [][NextWmDispose]_vars

\* one transfer, for every configuration and every answer of the collaborators
InitTransfer ==
  /\ InitSoft
  /\ InitHw
  /\ InitDa(<<>>)
  /\ InitTx(EmptyTx, FullFeeData)
  /\ InitKd(1, 0)
  /\ InitWm(2)
  /\ \E case \in TransferCases : InitTr(case)
  /\ InitCc
  /\ InitSk

SpecTr == InitTransfer /\ [][NextTr]_vars

\* populate called up to MaxCalls times, on changing input and network answers
InitPopulateSeq ==
  /\ InitSoft
  /\ InitHw
  /\ InitDa(<<>>)
  /\ \E input \in SeqPartialTxs, feeData \in SeqFeeDatas : InitTx(input, feeData)
  /\ InitKd(1, 0)
  /\ InitWm(2)
  /\ InitTr(NoTransfer)
  /\ InitCc
  /\ InitSk

SpecTxSeq == InitPopulateSeq /\ [][NextTxSeq]_vars

\* ---- claims ---------------------------------------------------------------------
ChildSigners == {s \in 1..Len(seedSigners) : seedSigners[s].account # 0}

\* C1: derive() does not mutate the parent/root: a derive or deriveChild call
\* leaves every node that existed before it with the private scalar, public
\* key, chain code, depth and path it had.
C1_DeriveLeavesNodesUntouched ==
  [][last'.op \in {"derive", "deriveChild"} =>
       \A n \in 1..Len(nodes) :
         /\ nodes'[n] = nodes[n]
         /\ NodeScalar(n)' = NodeScalar(n)]_vars

\* C2: derivation is deterministic: two children derived along the same path
\* from roots of the same seed (the same root or two roots) have identical
\* addresses and key pairs, whatever was derived before or in between.
C2_SamePathSameKey ==
  \A s, t \in ChildSigners :
    (seedSigners[s].seed = seedSigners[t].seed /\ seedSigners[s].path = seedSigners[t].path)
      => /\ seedSigners[s].address = seedSigners[t].address
         /\ keys[nodes[seedSigners[s].account].signingKey].publicKeyBuffer
              = keys[nodes[seedSigners[t].account].signingKey].publicKeyBuffer

\* C3: HD nodes are independent under disposal: node.dispose() leaves the
\* private scalar of every node that owns another container (its children, its
\* parent) intact; dispose never cascades.
C3_DisposeDoesNotCascade ==
  [][(last'.op = "dispose" /\ last'.kind = "node") =>
       \A m \in 1..Len(nodes) :
         nodes[m].signingKey # nodes[last'.id].signingKey
           => NodeScalar(m)' = NodeScalar(m)]_vars

\* C4: the SigningKey container is single-owner: no two live containers
\* reference the same scalar buffer.
C4_SingleOwner ==
  \A j, k \in 1..Len(keys) :
    (j # k /\ keys[j].buf # 0) => keys[j].buf # keys[k].buf

\* a seed signer still serves its purpose: a root can derive, a child can sign
SeedUsable(s) ==
  IF seedSigners[s].isRoot
  THEN /\ seedSigners[s].root # 0
       /\ NodeScalar(seedSigners[s].root) # Undefined
  ELSE \A d \in Digests : SeedSignResult(Mem, seedSigners[s], d).ok

\* C5: while the root or another child is still live, disposing one child
\* (or the account that wraps it) leaves the root able to derive and every
\* other live child able to sign.
C5_DisposeLeavesOthersUsable ==
  [][(last'.op = "dispose" /\ last'.kind \in {"seed", "account"}) =>
       \A t \in 1..Len(seedSigners) :
         (<<"seed", t>> \notin called' /\ SeedUsable(t)) => SeedUsable(t)']_vars

\* the buffers allocated for root nodes by fromSeed
RootBuffers == {keys[nodes[n].signingKey].buf0 : n \in {m \in 1..Len(nodes) : nodes[m].depth = 0}}

\* every seed signer standing on the root whose buffer is b has had dispose() called
FamilyDisposed(b) ==
  \A s \in 1..Len(seedSigners) :
    keys[nodes[seedSigners[s].root0].signingKey].buf0 = b => <<"seed", s>> \in called

\* C6: the root's key material is wiped exactly once, however many children
\* were derived: never twice, and not zero times once every handle is disposed.
C6_RootWipedExactlyOnce ==
  \A b \in RootBuffers :
    /\ wipes[b] <= 1
    /\ FamilyDisposed(b) => wipes[b] = 1

\* C7: after dispose() on a signer, every later getAddress, sign,
\* signTransaction, signTypedData and derive call on it fails; none of them
\* returns a value.
C7_NoValueAfterDispose ==
  (/\ last.kind \in {"seed", "pk"}
   /\ last.op \in SignOps \cup {"getAddress", "derive"}
   /\ <<last.kind, last.id>> \in called)
    => ~last.ok

\* C8: a second and any later dispose() does not throw and changes nothing.
C8_DisposeIdempotent ==
  [][(last'.op = "dispose" /\ <<last'.kind, last'.id>> \in called) =>
       /\ last'.ok
       /\ UNCHANGED <<heap, wipes, keys, nodes, seedSigners, pkSigners, accounts>>]_vars

\* dispose() has been called on the signer or account the last call went to,
\* which (for a child seed signer and a private-key signer) disposed its container
OnDisposedKey ==
  \/ /\ last.kind = "pk"
     /\ <<"pk", last.id>> \in called
  \/ /\ last.kind = "seed"
     /\ <<"seed", last.id>> \in called
     /\ ~seedSigners[last.id].isRoot
  \/ /\ last.kind = "account"
     /\ accounts[last.id].signer \in called

BackedByPk ==
  \/ last.kind = "pk"
  \/ last.kind = "account" /\ accounts[last.id].signer[1] = "pk"

C10_ReadAfterDisposeThrows ==
  (last.op = "keyPair" /\ OnDisposedKey) => ~last.ok

\* C11: a root SeedSigner can only derive: sign, signTransaction,
\* signTypedData and getAddress on it all fail with RootSignerCannotSign, and
\* a derive on a root nobody disposed succeeds and returns a child that signs.
C11_RootCanOnlyDerive ==
  (last.kind = "seed" /\ seedSigners[last.id].isRoot) =>
    /\ last.op \in SignOps \cup {"getAddress"}
         => (~last.ok /\ last.err = "RootSignerCannotSign")
    /\ (last.op = "derive" /\ called = {})
         => /\ last.ok
            /\ \A d \in Digests : SeedSignResult(Mem, seedSigners[last.val], d).ok

\* ---- claims on the hardware signer -----------------------------------------------
HwOps == SignOps \cup {"getAddress"}

\* the calls that reach the device: a connect, a reconnect or a device action
HwDeviceCalls(calls) ==
  {i \in 1..Len(calls) : calls[i] \in {"startDiscovering", "connect", "reconnect", "action"}}

HwReportedError == IF hwLast.device = "LOCKED" THEN "DeviceLocked" ELSE "DeviceBusy"

HwFoundDisconnected ==
  /\ hwLast.op \in HwOps
  /\ hwSigners[hwLast.id].dmk
  /\ (~hwLast.hadAccount \/ ~hwLast.hadSession \/ hwLast.device = "NOT_CONNECTED")

HwConnectCalls(calls) == {i \in 1..Len(calls) : calls[i] \in {"connect", "reconnect"}}

\* C13: an operation that finds the signer Disconnected makes exactly one
\* connect/reconnect call to the device: never zero, never more than one.
C13_ExactlyOneReconnect ==
  HwFoundDisconnected => Cardinality(HwConnectCalls(hwLast.calls)) = 1

\* ---- claims on the device action contract ----------------------------------------
\* the terminal events the action has emitted so far
DaSeen == {i \in 1..da.pos : IsTerminal(da.stream[i])}
DaFirst == CHOOSE i \in DaSeen : \A j \in DaSeen : i <= j

\* C14: a device action consumes exactly one terminal event: the first
\* Completed, Error or Stopped event fixes the result (Completed resolves with
\* its output, Error and Stopped reject); before it the promise is pending and
\* shows no partial result; events after it change nothing.
C14_FirstTerminalEventDecides ==
  IF DaSeen = {}
  THEN ~da.completed => (da.promise.state = "pending" /\ da.promise.val = Undefined)
  ELSE LET evt == da.stream[DaFirst]
       IN /\ da.settledAt = DaFirst
          /\ da.promise.state = IF evt.status = "Completed" THEN "resolved" ELSE "rejected"
          /\ da.promise.val = IF evt.status = "Completed" THEN evt.output ELSE Undefined

\* a Completed event after a non-terminal one fixed the result, and an Error
\* event followed it
C14_Witness ==
  /\ da.pos = 3
  /\ da.stream[1].status = "Pending"
  /\ da.stream[2].status = "Completed"
  /\ da.stream[3].status = "Error"
  /\ da.promise.state = "resolved"
  /\ da.promise.val = da.stream[2].output

\* the error a Stopped event is surfaced as
DaStoppedError == ConsumeNext(PendingPromise, Event("Stopped", Undefined, "")).err

C16_DeriveReusesSession ==
  (/\ hwLast.op \in HwOps
   /\ hwSigners[hwLast.id].parent # 0
   /\ hwSigners[hwSigners[hwLast.id].parent].account
   /\ hwSigners[hwSigners[hwLast.id].parent].sessionId \in sessions)
    => /\ \A i \in 1..Len(hwLast.calls) :
            hwLast.calls[i] \notin {"startDiscovering", "connect"}
       /\ hwLast.ok =>
            hwSigners[hwLast.id].sessionId = hwSigners[hwSigners[hwLast.id].parent].sessionId

\* C17: dispose() on a signer with an open session issues a close of that
\* session to the device, and leaves the signer inactive.
C17_DisposeClosesSession ==
  (hwLast.op = "dispose" /\ hwLast.hadAccount /\ hwLast.hadSession)
    => /\ \E i \in 1..Len(hwLast.calls) : hwLast.calls[i] = "disconnect"
       /\ ~hwSigners[hwLast.id].isActive

\* ---- claims on the populator -------------------------------------------------------
IncompatibleFeeFields ==
  {"eip-1559 transaction does not support gasPrice",
   "pre-eip-1559 transaction does not support maxFeePerGas/maxPriorityFeePerGas",
   "blob transaction does not support gasPrice"}

MissingBlobFee == "maxFeePerBlobGas is required for type 3 transactions"

TxAnyBlobField ==
  \/ tx.input.blobs # Null
  \/ tx.input.blobVersionedHashes # Null
  \/ tx.input.maxFeePerBlobGas # Null

TxAny1559Field ==
  tx.input.maxFeePerGas # Null \/ tx.input.maxPriorityFeePerGas # Null

\* C18: whenever populate succeeds, the output type is the explicit type if
\* one was given; else 3 if any blob field is present; else 2 if the network
\* reports both maxFeePerGas and maxPriorityFeePerGas; else 0.
C18_TypeResolutionOrder ==
  (tx.done /\ tx.ok) =>
    tx.out.type =
      IF tx.input.type # Null THEN tx.input.type
      ELSE IF TxAnyBlobField THEN 3
      ELSE IF tx.feeData.maxFeePerGas # Null /\ tx.feeData.maxPriorityFeePerGas # Null
           THEN 2
      ELSE 0

\* blob hashes alone, on a network that reports the 1559 fees: type 3, not 2
C18_Witness ==
  /\ tx.done
  /\ tx.ok
  /\ tx.input.type = Null
  /\ tx.input.blobVersionedHashes # Null
  /\ tx.input.blobs = Null
  /\ tx.feeData.maxFeePerGas # Null
  /\ tx.feeData.maxPriorityFeePerGas # Null
  /\ tx.out.type = 3

\* C19: populate fails with IncompatibleFeeFields and returns nothing when
\* (a) gasPrice comes with type 2 or with a 1559 field and no explicit type,
\* (b) explicit type 0 or 1 comes with a 1559 field, or (c) gasPrice comes
\* with type 3 or any blob field.
C19_IncompatibleFeeFields ==
  (/\ tx.done
   /\ \/ /\ tx.input.gasPrice # Null
         /\ (tx.input.type = 2 \/ (tx.input.type = Null /\ TxAny1559Field))
      \/ /\ tx.input.type \in {0, 1}
         /\ TxAny1559Field
      \/ /\ tx.input.gasPrice # Null
         /\ (tx.input.type = 3 \/ TxAnyBlobField))
    => /\ ~tx.ok
       /\ tx.err \in IncompatibleFeeFields
       /\ tx.out = Undefined

\* gasPrice next to blobs, with no type and no 1559 field: only case (c) applies
C19_Witness ==
  /\ tx.done
  /\ tx.input.type = Null
  /\ tx.input.gasPrice # Null
  /\ tx.input.blobs # Null
  /\ ~TxAny1559Field
  /\ ~tx.ok
  /\ tx.err = "blob transaction does not support gasPrice"

\* the input resolves to type 3 and carries no blob fee
TxType3WithoutBlobFee ==
  /\ tx.input.maxFeePerBlobGas = Null
  /\ \/ tx.input.type = 3
     \/ tx.input.type = Null /\ TxAnyBlobField

\* C20 (as stated): every input that resolves to type 3 and carries no
\* maxFeePerBlobGas fails with MissingBlobFee and returns no transaction.
C20_MissingBlobFee ==
  (tx.done /\ TxType3WithoutBlobFee)
    => (~tx.ok /\ tx.err = MissingBlobFee /\ tx.out = Undefined)

\* C20 (amended): every such input fails and returns no transaction; the
\* failure is MissingBlobFee when the input carries no gasPrice, and
\* IncompatibleFeeFields (raised first) when it does.
C20_MissingBlobFeeUnlessGasPrice ==
  (tx.done /\ TxType3WithoutBlobFee)
    => /\ ~tx.ok
       /\ tx.out = Undefined
       /\ IF tx.input.gasPrice = Null
          THEN tx.err = MissingBlobFee
          ELSE tx.err \in IncompatibleFeeFields

\* blob hashes with no blob fee and no explicit type
C20_Witness ==
  /\ tx.done
  /\ tx.input.type = Null
  /\ tx.input.blobVersionedHashes # Null
  /\ tx.input.maxFeePerBlobGas = Null
  /\ tx.input.gasPrice = Null
  /\ tx.err = MissingBlobFee

\* a field of the returned transaction that carries a usable value
TxDefined(v) == v \notin {Absent, Null, Undefined}

\* C21: every transaction populate returns with a type 0..3 has chainId, nonce
\* and gasLimit set, and exactly the fee fields of its type, each with a
\* defined value: gasPrice alone for type 0/1; maxFeePerGas and
\* maxPriorityFeePerGas without gasPrice for type 2; those two and
\* maxFeePerBlobGas without gasPrice for type 3.
C21_ExactFeeFields ==
  (tx.done /\ tx.ok /\ tx.out.type \in 0..3) =>
    /\ TxDefined(tx.out.chainId) /\ TxDefined(tx.out.nonce) /\ TxDefined(tx.out.gasLimit)
    /\ tx.out.type \in {0, 1} =>
         /\ TxDefined(tx.out.gasPrice)
         /\ tx.out.maxFeePerGas = Absent /\ tx.out.maxPriorityFeePerGas = Absent
         /\ tx.out.maxFeePerBlobGas = Absent
    /\ tx.out.type = 2 =>
         /\ TxDefined(tx.out.maxFeePerGas) /\ TxDefined(tx.out.maxPriorityFeePerGas)
         /\ tx.out.gasPrice = Absent /\ tx.out.maxFeePerBlobGas = Absent
    /\ tx.out.type = 3 =>
         /\ TxDefined(tx.out.maxFeePerGas) /\ TxDefined(tx.out.maxPriorityFeePerGas)
         /\ TxDefined(tx.out.maxFeePerBlobGas)
         /\ tx.out.gasPrice = Absent

\* a gasPrice supplied without an explicit type, on input that resolves to type 2
TxGasPriceImplicitType2 ==
  /\ tx.input.type = Null
  /\ tx.input.gasPrice # Null
  /\ resolveType(tx.input, tx.feeData) = 2

\* C22 (as stated): when the caller supplies gasPrice with no explicit type
\* and the type resolves to 2, populate does not fail and returns a type-2
\* transaction whose maxFeePerGas and maxPriorityFeePerGas both equal gasPrice.
C22_GasPriceReusedForType2 ==
  (tx.done /\ TxGasPriceImplicitType2) =>
    /\ tx.ok
    /\ tx.out.type = 2
    /\ tx.out.maxFeePerGas = tx.input.gasPrice
    /\ tx.out.maxPriorityFeePerGas = tx.input.gasPrice

\* C22 (amended): the same, for a caller who supplies neither maxFeePerGas
\* nor maxPriorityFeePerGas along with the gasPrice.
C22_GasPriceAloneReusedForType2 ==
  (tx.done /\ TxGasPriceImplicitType2 /\ ~has1559(tx.input)) =>
    /\ tx.ok
    /\ tx.out.type = 2
    /\ tx.out.maxFeePerGas = tx.input.gasPrice
    /\ tx.out.maxPriorityFeePerGas = tx.input.gasPrice
    /\ tx.out.gasPrice = Absent

\* C22 happens: a gasPrice of 20 alone, on a network that reports both 1559
\* figures, came back as a type-2 transaction with both fees at 20
C22_Witness ==
  /\ tx.done /\ tx.ok
  /\ TxGasPriceImplicitType2 /\ ~has1559(tx.input)
  /\ tx.input.gasPrice = 20
  /\ tx.feeData.maxFeePerGas = 31 /\ tx.feeData.maxPriorityFeePerGas = 4
  /\ tx.out.type = 2
  /\ tx.out.maxFeePerGas = 20 /\ tx.out.maxPriorityFeePerGas = 20

\* the calls in the log that were given what the call just settled was given
TxSameAsked(c, d) ==
  c.input = d.input /\ c.feeData = d.feeData /\ c.pending = d.pending

C24_PublicOnlyNodeDerivesNormalOnly ==
  [][\A n \in 1..Len(nodes), c \in ChildIndexes :
       (NodeScalar(n) = Undefined /\ NodeDeriveChild(n, c)) =>
          IF c.h
          THEN ~last'.ok /\ last'.err = "NeuteredNode" /\ nodes' = nodes
          ELSE last'.ok /\ Len(nodes') = Len(nodes) + 1]_vars

\* C25: for every parent scalar 0 < k < n and every 32-byte IL, deriveChild
\* yields (k + IL) mod n, subtracting n exactly once from the sum exactly when
\* the raw sum overflowed 32 bytes or reached n; the child scalar is always
\* below n.
C25_ChildScalarIsSumModN ==
  kd.done =>
    /\ kd.key = (kd.k + kd.IL) % CurveN
    /\ kd.key < CurveN
    /\ kd.subtracted <=> (kd.k + kd.IL >= ByteMod \/ kd.k + kd.IL >= CurveN)
    /\ kd.overflow <=> kd.k + kd.IL >= ByteMod

\* C28: PrivateKeySigner.derive fails with DerivationNotSupported for any
\* input and at any point of the signer's life, after dispose included; it
\* returns no signer and changes nothing.
C28_PkDeriveNeverSupported ==
  [][(last'.op = "derive" /\ last'.kind = "pk") =>
       /\ ~last'.ok
       /\ last'.err = "DerivationNotSupported"
       /\ last'.val = Undefined
       /\ UNCHANGED <<heap, wipes, keys, nodes, seedSigners, pkSigners, accounts,
                      sent, called>>]_vars

\* C28 happens: derive was called on a private-key signer that had been disposed
C28_Witness ==
  /\ last.op = "derive" /\ last.kind = "pk"
  /\ ~pkSigners[last.id].isActive
  /\ ~last.ok /\ last.err = "DerivationNotSupported"

\* the manager's last call asked for an account
WmAsked == wm.last.op \in {"getAccount", "getAccountByPath"}

\* a path component that is neither a decimal index nor a decimal index with '
PathComponentMalformed(component) ==
  ~IsDecimal(component) /\ ~IsHardenedDecimal(component)

\* a well-formed component whose number is 2^31 (scaled: HardenedBit) or more
PathComponentTooLarge(component) ==
  \/ IsDecimal(component) /\ parseInt(component) >= HardenedBit
  \/ /\ IsHardenedDecimal(component)
     /\ parseInt(SubSeq(component, 1, Len(component) - 1)) >= HardenedBit

\* the positions of the offending components of a relative path
PathOffences(path) ==
  {j \in 1..Len(Split(path)) :
     PathComponentMalformed(Split(path)[j]) \/ PathComponentTooLarge(Split(path)[j])}

AccountPathOf ==
  [i \in {0, 1} |->
     <<"m", "/", "4", "4", "'", "/", "6", "0", "'", "/", "0", "'", "/", "0", "/">>
       \o (IF i = 0 THEN <<"0">> ELSE <<"1">>)]

\* C27: the account returned for a valid relative path p has the path
\* "m/44'/60'/" followed by p; getAccount(i) returns an account whose path is
\* "m/44'/60'/0'/0/i" and whose index is i.
C27_AccountPathAndIndex ==
  (WmAsked /\ wm.last.ok) =>
    LET account == wm.objects[wm.last.val]
    IN /\ account.path
            = <<"m", "/", "4", "4", "'", "/", "6", "0", "'", "/">> \o wm.last.path
       /\ wm.last.op = "getAccount" =>
            /\ wm.last.index \in {0, 1}
            /\ account.path = AccountPathOf[wm.last.index]
            /\ account.index = wm.last.index

\* C27 happens: getAccount(1) returned a new account with path
\* "m/44'/60'/0'/0/1" and index 1, after an account on another path
C27_Witness ==
  /\ wm.last.op = "getAccount" /\ wm.last.index = 1
  /\ wm.last.ok /\ ~wm.last.cached
  /\ wm.last.val = 2
  /\ wm.objects[2].path = AccountPathOf[1]
  /\ wm.objects[2].index = 1
  /\ wm.objects[1].path # wm.objects[2].path

\* C29: on one wallet manager, every getAccount / getAccountByPath call with
\* the same signer name and the same path returns the same account object.
C29_SameAccountObject ==
  \A r, q \in wm.returned :
    (r[1] = q[1] /\ r[2] = q[2]) => r[3] = q[3]

\* C29 happens: getAccountByPath("0'/0/1") was served the object that an
\* earlier call had created, after a second account had been created
C29_Witness ==
  /\ wm.last.op = "getAccountByPath"
  /\ wm.last.path \in {<<"0", "'", "/", "0", "/", "0">>, <<"0", "'", "/", "0", "/", "1">>}
  /\ wm.last.ok /\ wm.last.cached
  /\ Len(wm.objects) = 2
  /\ <<wm.last.signerName, wm.last.path, wm.last.val>> \in wm.returned

\* C30: when transferMaxFee is configured and the fee quoted for the transfer
\* is greater than or equal to it, transfer fails with 'Exceeded maximum fee
\* cost for transfer operation.' and nothing is signed or broadcast.
C30_TransferMaxFee ==
  (/\ tr.done
   /\ tr.case.provider /\ tr.case.quoteOk
   /\ tr.case.transferMaxFee # Undefined
   /\ tr.case.fee >= tr.case.transferMaxFee) =>
    /\ ~tr.ok
    /\ tr.err = "Exceeded maximum fee cost for transfer operation."
    /\ \A i \in 1..Len(tr.calls) :
         tr.calls[i] \notin {"signTransaction", "eth_sendRawTransaction"}

\* C30 happens: with transferMaxFee 5 and a quoted fee of exactly 5, on an
\* account whose signer would have signed and whose node would have accepted,
\* the transfer was refused
C30_Witness ==
  /\ tr.done
  /\ tr.case.provider /\ tr.case.quoteOk /\ tr.case.signOk /\ tr.case.sendOk
  /\ tr.case.transferMaxFee = 5 /\ tr.case.fee = 5
  /\ ~tr.ok /\ tr.err = "Exceeded maximum fee cost for transfer operation."
  /\ tr.calls = <<"_getTransferTransaction", "quoteSendTransaction">>

\* ---- C31 ---------------------------------------------------------------------
\* the input asks for a type-3 transaction and gives no maxFeePerBlobGas
LacksBlobFee(t, feeData) == resolveType(t, feeData) = 3 /\ t.maxFeePerBlobGas = Null

ValidationErrors == IncompatibleFeeFields \cup {MissingBlobFee}

\* the provider was asked for the pending nonce or for a gas estimate
AskedNonceOrGas(calls) ==
  \E i \in 1..Len(calls) : calls[i] \in {"getTransactionCount", "estimateGas"}

\* C31: a populate call on an input that violates one of the three
\* fee-field conditions or lacks the blob fee fails with a validation error
\* and has asked the provider neither for the nonce nor for a gas estimate
C31_ValidationFailsFast ==
  (tx.done /\ (checkFeeFields(tx.input) # "" \/ LacksBlobFee(tx.input, tx.feeData)))
    => /\ ~tx.ok
       /\ tx.err \in ValidationErrors
       /\ ~AskedNonceOrGas(tx.calls)

\* ---- C32 ---------------------------------------------------------------------
\* the places of a path where 44' is followed by 60'
PrefixOccurrences(path) ==
  {i \in 1..(Len(path) - 1) :
     <<path[i], path[i + 1]>> = HW_BIP_44_ETH_DERIVATION_PATH_PREFIX}

\* C32: the signer returned by derive(relPath) on a parent with path P has
\* the path P/relPath, in which the prefix 44'/60' occurs exactly once, at the
\* start.
C32_DerivedPathPrefixedOnce ==
  \A h \in 1..Len(hwSigners) :
    hwSigners[h].parent # 0 =>
      /\ \E rel \in HwRelPaths :
           hwSigners[h].path = hwSigners[hwSigners[h].parent].path \o rel
      /\ PrefixOccurrences(hwSigners[h].path) = {1}

\* ---- C33 ---------------------------------------------------------------------
\* no call on the signer is between two of its steps
CcQuiescent == \A p \in 1..MaxConcurrentCalls : cc.procs[p].pc \in {"idle", "done"}
\* no call on the signer has failed
CcNoFailure == \A p \in 1..MaxConcurrentCalls : cc.procs[p].err = ""

\* C33: whatever the order of the steps of the calls started on a signer that
\* was not yet connected, as long as none of them fails at most one
\* discover-and-connect handshake is performed, and once they have all
\* settled every session still open is the signer's current session.
C33_OneHandshakeOneSession ==
  /\ CcNoFailure => cc.handshakes <= 1
  /\ CcQuiescent => cc.sessions \subseteq {cc.me.sessionId}

\* ---- C34 ---------------------------------------------------------------------
\* the buffer behind container k still holds a scalar that can sign
KeyIntact(k) == BufferOf(Mem, k) # Undefined /\ ValidScalar(BufferOf(Mem, k))

\* C34: for every child SeedSigner and every PrivateKeySigner, at every point
\* of any sequence of derive and dispose operations on it, on its root and
\* on its siblings, isActive is true exactly when its own key material is
\* intact.
C34_ActiveIffKeyIntact ==
  /\ \A s \in ChildSigners :
       seedSigners[s].isActive <=> KeyIntact(nodes[seedSigners[s].account].signingKey)
  /\ \A p \in 1..Len(pkSigners) :
       pkSigners[p].isActive <=> KeyIntact(pkSigners[p].signingKey)

\* ---- C35 ---------------------------------------------------------------------
\* the call just made on the manager was a derive that walked one or more
\* valid components and then met an invalid component or index
WmFailedPartWay ==
  /\ WmAsked
  /\ ~wm.last.ok
  /\ wm.last.err \in {"invalid path component", "invalid path index"}
  /\ wm.last.derived >= 1

\* C35: a derive that fails part-way through the path has no effect: the key
\* material and chain code of the root it was called on (and of every other
\* root) are what they were before the call.
C35_FailedDeriveHasNoEffect ==
  [][(wm'.calls # wm.calls /\ WmFailedPartWay') => wm'.signers = wm.signers]_vars

\* ---- C36 ---------------------------------------------------------------------
\* C36: every account returned by getAccountByPath / getAccount is active: a
\* call made after an account of the manager was disposed does not return
\* that disposed account.
C36_ReturnedAccountIsActive ==
  (WmAsked /\ wm.last.ok) => wm.last.val \notin wm.disposed

\* ---- C37 ---------------------------------------------------------------------
\* the operation just run failed inside _connect: dmk.connect rejected, or
\* the handshake's getAddress action failed and _disconnect cleaned up
HwConnectFailed ==
  /\ hwLast.op \in HwOps
  /\ ~hwLast.ok
  /\ hwLast.calls # <<>>
  /\ hwLast.calls[Len(hwLast.calls)] \in {"connect", "disconnect"}

C38_NoSuppliedFieldDropped ==
  (tx.done /\ tx.ok) =>
    /\ tx.input.gasPrice # Null =>
         \/ tx.out.gasPrice = tx.input.gasPrice
         \/ /\ tx.out.maxFeePerGas = tx.input.gasPrice
            /\ tx.out.maxPriorityFeePerGas = tx.input.gasPrice
    /\ tx.input.maxFeePerGas # Null => tx.out.maxFeePerGas = tx.input.maxFeePerGas
    /\ tx.input.maxPriorityFeePerGas # Null =>
         tx.out.maxPriorityFeePerGas = tx.input.maxPriorityFeePerGas
    /\ tx.input.maxFeePerBlobGas # Null => tx.out.maxFeePerBlobGas = tx.input.maxFeePerBlobGas
    /\ tx.input.blobs # Null => tx.out.blobs = tx.input.blobs
    /\ tx.input.blobVersionedHashes # Null =>
         tx.out.blobVersionedHashes = tx.input.blobVersionedHashes

\* ---- C39 ---------------------------------------------------------------------
\* C39: an operation that issued a device action settles once the action's
\* event stream ends: the promise does not stay pending, a stream that
\* completed without a Completed, Error or Stopped event rejects it, and it
\* is never resolved without an output.
C39_SettlesWhenStreamEnds ==
  /\ <>(da.promise.state # "pending")
  /\ [](da.completed => da.promise.state # "pending")
  /\ []((da.completed /\ DaSeen = {}) => da.promise.state = "rejected")
  /\ [](da.promise.state = "resolved" => da.promise.val \in Outputs)

\* C39 happens: the action emitted only Pending events, its stream completed,
\* and the operation was rejected for want of a value
C39_Witness ==
  /\ da.completed
  /\ Len(da.stream) >= 2
  /\ DaSeen = {}
  /\ da.promise.state = "rejected"
  /\ da.promise.err = "EmptyError"

\* ---- C40 ---------------------------------------------------------------------
\* C40: reading the signingKey accessor of an HD node terminates and returns
\* the container the node was constructed with: the getter is entered once
\* per read, and no read (by signingKey, privateKeyBuffer, publicKeyBuffer,
\* connect, deriveChild or dispose) ends in a stack overflow.
C40_SigningKeyReadReturns ==
  /\ sk.state = "reading" => sk.depth = 1
  /\ sk.state # "RangeError"

====
